---- MODULE Spec2Model ----
(***************************************************************************)
(* State-machine model of bedrock-cost-keeper: the sharded usage counters  *)
(* (MeteringService.submit_usage over DynamoDBBridge), the daily-total and *)
(* sticky-state tables, and the model-selection handler.                   *)
(* The credential and token handlers (token, refresh, revoke, rotate, the  *)
(* bearer authorizer) and PricingService.calculate_cost have their own      *)
(* specifications, SpecAuth and SpecCalc.  Further specifications look at  *)
(* one operation each: SpecLegacy (submit_cost), SpecProvisioning (org and *)
(* app registration), SpecWindow (timestamps at the edges of the window),  *)
(* SpecResolve (labels with inference profiles), SpecPricing (get_pricing),*)
(* SpecMode (the tight-mode threshold), SpecRollover (a day change),       *)
(* SpecBatch (batch submission), SpecKeys (the store keys of the writer    *)
(* and the readers, and the aggregates view), SpecReconfig (submissions    *)
(* around configuration updates), SpecRace (provisioning calls in flight   *)
(* together), SpecFailures (failing submissions) and SpecContend           *)
(* (selections beside conditional writes, with fairness).                  *)
(*                                                                         *)
(* Time is counted in half days; a day key DAY#YYYYMMDD is the number of   *)
(* the day in the given timezone.  Store keys are tuples of the parts the  *)
(* code joins with '#'.                                                    *)
(***************************************************************************)
EXTENDS Integers, Sequences, FiniteSets, Bags, TLC

VARIABLES
  now,              \* the clock, in half days
  orgConfig,        \* config table: the item of the organization
  appConfig,        \* config table: the items of its applications
  profiles,         \* config table: registered inference profiles
  pricing_service,  \* the pricing service MeteringService is constructed with
  shards,           \* sharded usage table: (scope, day, label, shard) -> cell
  dailyTotals,      \* daily-total table: (scope, day, label) -> item
  sticky,           \* sticky-state table: (scope, day) -> item
  handler,          \* per request handler: where it is and what it holds
  resp,             \* per request handler: the last response it returned
  hist,             \* history: the accepted usage submissions
  selPrev,          \* history: (scope, day) -> index last recommended
  lastPut,          \* history: the last put_sticky_state call and its effect
  ops,              \* history: number of operations started
  clock,            \* the clock of the credential and token handlers, in hours
  bridge,           \* the database bridge the provisioning routes are given
  credentials,      \* config table: client_id and secret hashes of each client
  issued,           \* the tokens signed so far
  revoked,          \* revoked-token table: jti -> item
  nextJti,          \* history: number of tokens signed
  rot,              \* history: the last rotate request of each client
  authLast,         \* history: the last credential or token request and its answer
  cost_in,          \* arguments of the last calculate_cost call
  cost_out,         \* its result
  legacy,           \* history: the last submit_cost call, run with two client costs
  _cache,           \* PricingService._cache: cache_key -> (pricing, time of writing)
  pricing_table,    \* store: the PricingCache table
  mono,             \* time.time(), in seconds
  pcall             \* get_pricing calls: position, and the finished call's record

authVars == <<clock, bridge, credentials, issued, revoked, nextJti, rot, authLast>>
costVars == <<cost_in, cost_out>>
pricingVars == <<_cache, pricing_table, mono, pcall>>
auxVars == <<legacy, pricingVars>>

vars == <<now, orgConfig, appConfig, profiles, pricing_service, shards,
          dailyTotals, sticky, handler, resp, hist, selPrev, lastPut, ops,
          authVars, costVars, auxVars>>

----------------------------------------------------------------------------
(* Bounds of the model *)

\* requests started in a behaviour of Spec
MaxOps == 2
\* requests and table writes started in a behaviour of SpecSelection
MaxSelOps == 3
\* last value of the clock
MaxNow == 1

(* Program constants *)

DefaultShardCount == 8
MaxFutureSeconds == 300
MaxPastSeconds == 86400
DefaultTightThresholdPct == 95

----------------------------------------------------------------------------
(* Values *)

\* Python None where an item or a record is expected
None == [none |-> TRUE]
\* Python None where a string is expected
NoRegion == "None"
OrgId == "o1"
Apps == {"a1", "a2"}
Handlers == {"h1", "h2"}

R1 == "550e8400-e29b-41d4-a716-446655440000"
R2 == "a1b2c3d4-e5f6-4890-abcd-ef1234567890"

\* int(sha256(request_id).hexdigest(), 16) reduced modulo 24 for R1 and R2;
\* every shard count of the model divides 24, so (h % 24) % n = h % n.
Sha256Residue == (R1 :> 20) @@ (R2 :> 13)

\* UTC offset of a timezone, in half days.
TzOffset == ("UTC" :> 0) @@ ("Pacific/Auckland" :> 1)

Ladder3 == <<"premium", "standard", "economy">>
Ladder2 == <<"premium", "standard">>

\* main_config['model_labels']: the static pricebook.  _resolve_label reads
\* 'type' and 'id'; _get_pricing_from_config and the selection handler read
\* 'bedrock_model_id' and the prices.
ModelLabels ==
  [ premium  |-> [type |-> "model", id |-> "m-premium",
                  bedrock_model_id |-> "m-premium",
                  input_price_usd_micros_per_1m |-> 3000000,
                  output_price_usd_micros_per_1m |-> 15000000],
    standard |-> [type |-> "model", id |-> "m-standard",
                  bedrock_model_id |-> "m-standard",
                  input_price_usd_micros_per_1m |-> 800000,
                  output_price_usd_micros_per_1m |-> 4000000],
    economy  |-> [type |-> "model", id |-> "m-economy",
                  bedrock_model_id |-> "m-economy",
                  input_price_usd_micros_per_1m |-> 250000,
                  output_price_usd_micros_per_1m |-> 1250000] ]

Range(s) == {s[i] : i \in DOMAIN s}

\* dict.get(key, default)
Get(d, k, default) == IF k \in DOMAIN d THEN d[k] ELSE default

\* Organization records a PUT /orgs/{org_id} can have stored.
OrgConfigs ==
  { [timezone |-> "UTC", quota_scope |-> qs, model_ordering |-> Ladder3,
     quotas |-> q] :
      qs \in {"ORG", "APP"},
      q \in { [premium |-> 18, standard |-> 6, economy |-> 1] } }
  \cup
  { [timezone |-> "UTC", quota_scope |-> "ORG", model_ordering |-> Ladder3,
     quotas |-> [premium |-> 0, standard |-> 0, economy |-> 0]] }

\* Application records a PUT /orgs/{org_id}/apps/{app_id} can have stored:
\* only the overriding keys are present.
AppConfigs ==
  { [agg_shard_count |-> 3],
    [model_ordering |-> Ladder2, quotas |-> [premium |-> 6, standard |-> 3]],
    [timezone |-> "Pacific/Auckland"] }

\* Usage submissions (request bodies); ts_off is timestamp - now in seconds.
UsageInputs ==
  { [request_id |-> R1, model_label |-> "premium", bedrock_model_id |-> "m-premium",
     input_tokens |-> 1, output_tokens |-> 1, status |-> "OK", ts_off |-> 0,
     calling_region |-> NoRegion],
    [request_id |-> R1, model_label |-> "premium", bedrock_model_id |-> "m-premium",
     input_tokens |-> 2, output_tokens |-> 0, status |-> "OK", ts_off |-> 0,
     calling_region |-> NoRegion],
    [request_id |-> R1, model_label |-> "economy", bedrock_model_id |-> "m-economy",
     input_tokens |-> 1, output_tokens |-> 3, status |-> "OK", ts_off |-> 0,
     calling_region |-> NoRegion],
    [request_id |-> R2, model_label |-> "premium", bedrock_model_id |-> "m-premium",
     input_tokens |-> 1, output_tokens |-> 0, status |-> "ERROR", ts_off |-> 0,
     calling_region |-> NoRegion],
    [request_id |-> R2, model_label |-> "premium", bedrock_model_id |-> "m-premium",
     input_tokens |-> 1, output_tokens |-> 0, status |-> "OK", ts_off |-> -86401,
     calling_region |-> NoRegion] }

----------------------------------------------------------------------------
(* Configuration *)

\* effective_config = {**org_config}; effective_config.update(app_config)
EffectiveConfig(org, app) ==
  IF app = None THEN org
  ELSE [k \in DOMAIN org \cup DOMAIN app |->
          IF k \in DOMAIN app THEN app[k] ELSE org[k]]

get_org_config == orgConfig
get_app_config(app_id) == appConfig[app_id]

\* MeteringService._compute_scope
_compute_scope(org_config, org_id, app_id) ==
  IF Get(org_config, "quota_scope", "ORG") = "ORG"
  THEN <<"ORG", org_id>>
  ELSE <<"ORG", org_id, "APP", app_id>>

\* MeteringService._compute_org_day
_compute_org_day(org_timezone) == (now + TzOffset[org_timezone]) \div 2

\* MeteringService._select_shard
_select_shard(request_id, shard_count) == Sha256Residue[request_id] % shard_count

----------------------------------------------------------------------------
(* Pricing *)

\* PricingService.calculate_cost
\* Variants of calculate_cost, for comparison: one floor division of the sum
\* of the two products, and each term rounded to the nearest micro.
calculate_cost_single_floor(input_tokens, output_tokens, input_price_per_1m, output_price_per_1m) ==
  (input_tokens * input_price_per_1m + output_tokens * output_price_per_1m) \div 1000000

calculate_cost_rounded(input_tokens, output_tokens, input_price_per_1m, output_price_per_1m) ==
  (input_tokens * input_price_per_1m + 500000) \div 1000000
    + (output_tokens * output_price_per_1m + 500000) \div 1000000

calculate_cost(input_tokens, output_tokens, input_price_per_1m, output_price_per_1m) ==
  ((input_tokens * input_price_per_1m) \div 1000000)
  + ((output_tokens * output_price_per_1m) \div 1000000)

\* PricingService._get_pricing_from_config: the pricebook tier of the lookup.
_get_pricing_from_config(bedrock_model_id) ==
  LET hits == {l \in DOMAIN ModelLabels :
                 Get(ModelLabels[l], "bedrock_model_id", NoRegion) = bedrock_model_id}
  IN IF hits = {} THEN None
     ELSE LET m == ModelLabels[CHOOSE l \in hits : TRUE]
          IN [input_price_usd_micros_per_1m |-> m.input_price_usd_micros_per_1m,
              output_price_usd_micros_per_1m |-> m.output_price_usd_micros_per_1m]

\* The call submit_usage makes:
\*   pricing_service.get_pricing(bedrock_model_id=, date=, region=).
\* PricingService.get_pricing(self, bedrock_model_id, date) has no region
\* parameter, so with the service the routes construct the call raises
\* TypeError.  A pricing service that takes the region resolves the price
\* (the store's price cache is empty here, so the pricebook tier answers).
get_pricing(bedrock_model_id, region) ==
  IF pricing_service = "PricingService" THEN [err |-> "TypeError"]
  ELSE LET p == _get_pricing_from_config(bedrock_model_id)
       IN IF p = None THEN [err |-> "ValueError"] ELSE p

----------------------------------------------------------------------------
(* Store operations on the usage cells and the daily totals *)

ZeroTotal == [cost_usd_micros |-> 0, input_tokens |-> 0, output_tokens |-> 0,
              requests |-> 0]

\* update_usage_shard without its ConditionExpression: the ADD is applied
\* whether or not the request id is already in the cell.
update_usage_shard_unconditional(cells, scope, day, model_label, shard_id, cost_usd_micros, input_tokens, output_tokens, requests, request_id) ==
  LET k == <<scope, day, model_label, shard_id>>
      old == IF k \in DOMAIN cells THEN cells[k]
             ELSE [cost_usd_micros |-> 0, input_tokens |-> 0, output_tokens |-> 0,
                   requests |-> 0, request_ids |-> {}]
      new == [cost_usd_micros |-> old.cost_usd_micros + cost_usd_micros,
              input_tokens |-> old.input_tokens + input_tokens,
              output_tokens |-> old.output_tokens + output_tokens,
              requests |-> old.requests + requests,
              request_ids |-> old.request_ids \cup {request_id}]
  IN [x \in DOMAIN cells \cup {k} |-> IF x = k THEN new ELSE cells[x]]

\* DynamoDBBridge.update_usage_shard: one conditional update of the cell
\* (shard_key, date_key); ConditionalCheckFailedException is swallowed.
update_usage_shard(cells, scope, day, model_label, shard_id, cost_usd_micros, input_tokens, output_tokens, requests, request_id) ==
  LET k == <<scope, day, model_label, shard_id>> IN
  IF k \notin DOMAIN cells
  THEN cells @@ (k :> [cost_usd_micros |-> cost_usd_micros,
                       input_tokens |-> input_tokens,
                       output_tokens |-> output_tokens,
                       requests |-> requests,
                       request_ids |-> {request_id}])
  ELSE IF request_id \in cells[k].request_ids
  THEN cells
  ELSE [cells EXCEPT ![k] =
          [cost_usd_micros |-> @.cost_usd_micros + cost_usd_micros,
           input_tokens |-> @.input_tokens + input_tokens,
           output_tokens |-> @.output_tokens + output_tokens,
           requests |-> @.requests + requests,
           request_ids |-> @.request_ids \cup {request_id}]]

\* DynamoDBBridge.get_daily_total: one item of the daily-total table.
get_daily_total(scope, day, model_label) ==
  Get(dailyTotals, <<scope, day, model_label>>, None)

\* DynamoDBBridge.get_daily_totals_batch: the items found, by label.
get_daily_totals_batch(scope, day, model_labels) ==
  [l \in {x \in Range(model_labels) : <<scope, day, x>> \in DOMAIN dailyTotals}
     |-> dailyTotals[<<scope, day, l>>]]

\* MeteringService.get_current_usage
get_current_usage(org_id, app_id, model_labels) ==
  IF get_org_config = None THEN <<>>
  ELSE get_daily_totals_batch(_compute_scope(get_org_config, org_id, app_id),
                              _compute_org_day(get_org_config.timezone),
                              model_labels)

----------------------------------------------------------------------------
(* Label resolution *)

get_inference_profile(org_id, app_id, profile_label) ==
  Get(profiles, <<org_id, app_id, profile_label>>, None)

\* MeteringService._resolve_label
_resolve_label(org_id, app_id, model_label) ==
  LET profile == get_inference_profile(org_id, app_id, model_label) IN
  IF profile # None
  THEN [type |-> "profile", identifier |-> profile.inference_profile_arn,
        label |-> model_label]
  ELSE IF model_label \in DOMAIN ModelLabels
  THEN [type |-> Get(ModelLabels[model_label], "type", "model"),
        identifier |-> ModelLabels[model_label].id, label |-> model_label]
  ELSE [err |-> "InvalidConfigException"]

\* InferenceProfileService.get_model_for_region
get_model_for_region(org_id, app_id, profile_label, calling_region) ==
  LET profile == get_inference_profile(org_id, app_id, profile_label) IN
  IF profile = None THEN [err |-> "ValueError"]
  ELSE IF calling_region \notin DOMAIN profile.model_arns THEN [err |-> "ValueError"]
  ELSE [model_id |-> profile.model_arns[calling_region]]

----------------------------------------------------------------------------
(* POST /orgs/{o}/apps/{a}/usage *)

Failed(code, error) == [status |-> "failed", code |-> code, error |-> error]

\* submit_usage with the shard write ahead of every check, for comparison.
submit_usage_prepare_write_first(org_id, app_id, u) ==
  [status |-> "pending", scope |-> <<"ORG", org_id>>, day |-> _compute_org_day("UTC"),
   shard_id |-> _select_shard(u.request_id, DefaultShardCount), cost_usd_micros |-> 0]

\* MeteringService.submit_usage up to the shard write: what it raises, or the
\* write it is about to make.
submit_usage_prepare(org_id, app_id, u) ==
  LET org_config == get_org_config
      app_config == get_app_config(app_id)
      effective_config == EffectiveConfig(org_config, app_config)
      model_ordering == Get(effective_config, "model_ordering", <<>>)
  IN
  IF org_config = None THEN Failed(400, "INVALID_CONFIG")
  ELSE IF u.model_label \notin Range(model_ordering) THEN Failed(400, "INVALID_CONFIG")
  ELSE
  LET label_info == _resolve_label(org_id, app_id, u.model_label) IN
  IF "err" \in DOMAIN label_info THEN Failed(400, "INVALID_CONFIG")
  ELSE IF label_info.type = "profile" /\ u.calling_region = NoRegion
  THEN Failed(400, "INVALID_REQUEST")
  ELSE
  LET actual == IF label_info.type = "profile"
                THEN get_model_for_region(org_id, app_id, u.model_label,
                                          u.calling_region)
                ELSE [model_id |-> u.bedrock_model_id]
      pricing_region == IF label_info.type = "profile" THEN u.calling_region
                        ELSE NoRegion
  IN
  IF "err" \in DOMAIN actual THEN Failed(500, "INTERNAL_ERROR")
  ELSE
  LET pricing == get_pricing(actual.model_id, pricing_region) IN
  IF "err" \in DOMAIN pricing THEN Failed(500, "INTERNAL_ERROR")
  ELSE
  LET cost_usd_micros ==
        calculate_cost(u.input_tokens, u.output_tokens,
                       pricing.input_price_usd_micros_per_1m,
                       pricing.output_price_usd_micros_per_1m)
      scope == _compute_scope(org_config, org_id, app_id)
      day == _compute_org_day(effective_config.timezone)
      shard_count == Get(effective_config, "agg_shard_count", DefaultShardCount)
  IN
  IF u.ts_off > MaxFutureSeconds THEN Failed(400, "INVALID_REQUEST")
  ELSE IF u.ts_off < -MaxPastSeconds THEN Failed(400, "INVALID_REQUEST")
  ELSE [status |-> "pending", scope |-> scope, day |-> day,
        shard_id |-> _select_shard(u.request_id, shard_count),
        cost_usd_micros |-> cost_usd_micros]

\* UsageSubmissionRequest.validate_timestamp
validate_timestamp(u) == u.ts_off <= 0

Idle == [pc |-> "idle"]

\* The handler takes the request, validates the body and runs submit_usage as
\* far as its first store write.
SubmitBegin(h, app_id, u) ==
  /\ handler[h].pc = "idle"
  /\ ops' = ops + 1
  /\ LET r == IF validate_timestamp(u)
              THEN submit_usage_prepare(OrgId, app_id, u)
              ELSE Failed(422, "VALIDATION_ERROR")
     IN IF r.status = "failed"
        THEN /\ resp' = [resp EXCEPT ![h] = [op |-> "submit", app |-> app_id, u |-> u] @@ r]
             /\ UNCHANGED <<handler, hist>>
        ELSE /\ handler' = [handler EXCEPT ![h] =
                              [pc |-> "write", app |-> app_id, u |-> u,
                               scope |-> r.scope, day |-> r.day,
                               shard_id |-> r.shard_id,
                               cost_usd_micros |-> r.cost_usd_micros]]
             /\ resp' = [resp EXCEPT ![h] = None]
             /\ UNCHANGED hist
  /\ UNCHANGED <<authVars, costVars, auxVars>>
  /\ UNCHANGED <<now, orgConfig, appConfig, profiles, pricing_service, shards,
                 dailyTotals, sticky, selPrev, lastPut>>

\* await self.db.update_usage_shard(...)
SubmitWrite(h) ==
  /\ handler[h].pc = "write"
  /\ LET w == handler[h] IN
     shards' = update_usage_shard(shards, w.scope, w.day, w.u.model_label,
                                  w.shard_id, w.cost_usd_micros, w.u.input_tokens,
                                  w.u.output_tokens, 1, w.u.request_id)
  /\ handler' = [handler EXCEPT ![h].pc = "read"]
  /\ UNCHANGED <<authVars, costVars, auxVars>>
  /\ UNCHANGED <<now, orgConfig, appConfig, profiles, pricing_service,
                 dailyTotals, sticky, resp, hist, selPrev, lastPut, ops>>

\* daily_total = await self.db.get_daily_total(...); return {... 'accepted' ...}
SubmitReturn(h) ==
  /\ handler[h].pc = "read"
  /\ LET w == handler[h] IN
     /\ resp' = [resp EXCEPT ![h] =
                   [op |-> "submit", app |-> w.app, u |-> w.u,
                    status |-> "accepted", code |-> 202,
                    shard_id |-> w.shard_id,
                    cost_usd_micros |-> w.cost_usd_micros,
                    daily_total |-> get_daily_total(w.scope, w.day, w.u.model_label)]]
     /\ hist' = hist \cup {[app |-> w.app, u |-> w.u,
                              scope |-> w.scope, day |-> w.day,
                              shard_id |-> w.shard_id,
                              cost_usd_micros |-> w.cost_usd_micros]}
  /\ handler' = [handler EXCEPT ![h] = Idle]
  /\ UNCHANGED <<authVars, costVars, auxVars>>
  /\ UNCHANGED <<now, orgConfig, appConfig, profiles, pricing_service, shards,
                 dailyTotals, sticky, selPrev, lastPut, ops>>

----------------------------------------------------------------------------
(* Sticky state and daily totals: store operations *)

\* get_sticky_state with the day left out of the key: the scope's item of the latest day.
get_sticky_state_of_scope(scope, day) ==
  LET days == {k[2] : k \in {x \in DOMAIN sticky : x[1] = scope}}
  IN IF days = {} THEN None
     ELSE sticky[<<scope, CHOOSE d \in days : \A e \in days : e <= d>>]

\* DynamoDBBridge.get_sticky_state
get_sticky_state(scope, day) == Get(sticky, <<scope, day>>, None)

\* The condition of put_sticky_state's conditional put:
\*   attribute_not_exists(active_model_label) OR active_model_index < :new_index
StickyCondition(item, active_model_index) ==
  \/ "active_model_label" \notin DOMAIN item
  \/ item.active_model_index < active_model_index

\* put_sticky_state without its ConditionExpression: a plain put.
put_sticky_state_unconditional(table, scope, day, active_model_label, active_model_index, reason) ==
  LET k == <<scope, day>>
      item == [active_model_label |-> active_model_label,
               active_model_index |-> active_model_index,
               reason |-> reason]
  IN [table |-> [x \in DOMAIN table \cup {k} |-> IF x = k THEN item ELSE table[x]],
      ok |-> TRUE]

\* DynamoDBBridge.put_sticky_state: the table after the call and its result.
put_sticky_state(table, scope, day, active_model_label, active_model_index, reason) ==
  LET k == <<scope, day>>
      item == [active_model_label |-> active_model_label,
               active_model_index |-> active_model_index,
               reason |-> reason]
  IN IF k \notin DOMAIN table
     THEN [table |-> table @@ (k :> item), ok |-> TRUE]
     ELSE IF StickyCondition(table[k], active_model_index)
     THEN [table |-> [table EXCEPT ![k] = item], ok |-> TRUE]
     ELSE [table |-> table, ok |-> FALSE]

\* DynamoDBBridge.put_daily_total: overwrite.
put_daily_total(table, scope, day, model_label, cost_usd_micros, input_tokens, output_tokens, requests) ==
  LET k == <<scope, day, model_label>>
      item == [cost_usd_micros |-> cost_usd_micros, input_tokens |-> input_tokens,
               output_tokens |-> output_tokens, requests |-> requests]
  IN IF k \in DOMAIN table THEN [table EXCEPT ![k] = item] ELSE table @@ (k :> item)

----------------------------------------------------------------------------
(* GET /orgs/{o}/apps/{a}/model-selection *)

\* usage.get(label, {}).get('cost_usd_micros', 0)
Spend(usage, label) ==
  IF label \in DOMAIN usage THEN Get(usage[label], "cost_usd_micros", 0) ELSE 0

\* Position of a label in the ladder, 0-based; -1 when it is not on it.
IndexOf(model_ordering, label) ==
  IF label \in Range(model_ordering)
  THEN (CHOOSE i \in DOMAIN model_ordering : model_ordering[i] = label) - 1
  ELSE -1

\* Variants of the loop, for comparison: one that takes the last label under
\* quota, one that also takes a label whose spend equals its quota.
FirstUnderQuota_last(model_ordering, quotas, usage) ==
  LET under == {i \in DOMAIN model_ordering :
                  Spend(usage, model_ordering[i]) < Get(quotas, model_ordering[i], 0)}
  IN IF under = {} THEN -1
     ELSE (CHOOSE i \in under : \A j \in under : i >= j) - 1

FirstUnderQuota_inclusive(model_ordering, quotas, usage) ==
  LET under == {i \in DOMAIN model_ordering :
                  Spend(usage, model_ordering[i]) <= Get(quotas, model_ordering[i], 0)}
  IN IF under = {} THEN -1
     ELSE (CHOOSE i \in under : \A j \in under : i <= j) - 1

\* The loop "for label in model_ordering: if spend < quota: ... break":
\* 0-based index of the first label under quota, -1 when there is none.
FirstUnderQuota(model_ordering, quotas, usage) ==
  LET under == {i \in DOMAIN model_ordering :
                  Spend(usage, model_ordering[i]) < Get(quotas, model_ordering[i], 0)}
  IN IF under = {} THEN -1
     ELSE (CHOOSE i \in under : \A j \in under : i <= j) - 1

\* (spend / quota) * 100, integer part
QuotaPct(spend, quota) == (spend * 100) \div quota

\* The (spend, quota) pairs of the model's range whose double
\* spend / quota * 100 is below the exact value, an integer: 29 / 100 * 100 is
\* 28.999999999999996, 57 / 100 * 100 and 29 / 50 * 100 are 56.99999999999999
\* and 57.99999999999999.  For every other pair of the range the double
\* compares with an integer threshold as the exact value does.
RoundedBelow == {<<29, 100>>, <<57, 100>>, <<29, 50>>}

\* quota_pct >= tight_threshold, for
\* quota_pct = (current_spend / current_quota * 100) if current_quota > 0 else 0
quota_pct_at_least(current_spend, current_quota, tight_threshold) ==
  IF current_quota > 0
  THEN IF <<current_spend, current_quota>> \in RoundedBelow
       THEN current_spend * 100 > tight_threshold * current_quota
       ELSE current_spend * 100 >= tight_threshold * current_quota
  ELSE 0 >= tight_threshold

\* The handler from the sticky-state read to its response.
select_model(app_id, usage, sticky_state, org_config, effective_config) ==
  LET model_ordering == Get(effective_config, "model_ordering", <<>>)
      quotas == Get(effective_config, "quotas", <<>>)
      first == FirstUnderQuota(model_ordering, quotas, usage)
      recommended_label ==
        IF sticky_state # None THEN sticky_state.active_model_label
        ELSE IF first >= 0 THEN model_ordering[first + 1]
        ELSE NoRegion
      reason == IF sticky_state # None THEN "STICKY_FALLBACK" ELSE "NORMAL"
      \* quotas.get(label, 1) as a divisor, in the details of the 429 answer
      zero_quota == \E l \in Range(model_ordering) : Get(quotas, l, 1) = 0
      current_quota == Get(quotas, recommended_label, 0)
      current_spend == Spend(usage, recommended_label)
      tight_threshold == Get(effective_config, "tight_mode_threshold_pct",
                             DefaultTightThresholdPct)
      tight == quota_pct_at_least(current_spend, current_quota, tight_threshold)
  IN
  IF recommended_label = NoRegion /\ zero_quota
  THEN [op |-> "select", app |-> app_id, code |-> 500]
  ELSE IF recommended_label = NoRegion
  THEN [op |-> "select", app |-> app_id, code |-> 429,
        error |-> "QUOTA_EXCEEDED",
        models |-> [l \in Range(model_ordering) |->
                      QuotaPct(Spend(usage, l), Get(quotas, l, 1))]]
  ELSE [op |-> "select", app |-> app_id, code |-> 200,
        label |-> recommended_label,
        index |-> IndexOf(model_ordering, recommended_label),
        reason |-> reason,
        sticky_fallback_active |-> (sticky_state # None),
        mode |-> IF tight THEN "TIGHT" ELSE "NORMAL",
        check_frequency |-> IF tight THEN "PERIODIC_60S" ELSE "PERIODIC_300S",
        cache_duration_secs |-> IF tight THEN 60 ELSE 300,
        spend_usd_micros |-> current_spend,
        quota_usd_micros |-> current_quota]

\* The handler reads the configuration and the usage of the ladder's labels.
SelBegin(h, app_id) ==
  /\ handler[h].pc = "idle"
  /\ ops' = ops + 1
  /\ LET effective_config == EffectiveConfig(get_org_config, get_app_config(app_id))
         model_ordering == Get(effective_config, "model_ordering", <<>>)
     IN handler' = [handler EXCEPT ![h] =
                      [pc |-> "sticky", app |-> app_id,
                       usage |-> get_current_usage(OrgId, app_id, model_ordering),
                       usage_day |-> IF get_org_config = None THEN -1
                                     ELSE _compute_org_day(get_org_config.timezone)]]
  /\ resp' = [resp EXCEPT ![h] = None]
  /\ UNCHANGED <<authVars, costVars, auxVars>>
  /\ UNCHANGED <<now, orgConfig, appConfig, profiles, pricing_service, shards,
                 dailyTotals, sticky, hist, selPrev, lastPut>>

\* A handler that goes back to reading instead of answering, for comparison.
SelFinish_reread(h) ==
  /\ handler[h].pc = "sticky"
  /\ handler' = [handler EXCEPT ![h].pc = "sticky"]
  /\ UNCHANGED <<authVars, costVars, auxVars>>
  /\ UNCHANGED <<now, orgConfig, appConfig, profiles, pricing_service, shards,
                 dailyTotals, sticky, resp, hist, selPrev, lastPut, ops>>

\* The handler reads the sticky state, decides and answers.  The response
\* carries what the handler observed: the sticky item it read, the first
\* label it saw under quota, and the index last answered for the scope and day.
SelFinish(h) ==
  /\ handler[h].pc = "sticky"
  /\ LET w == handler[h]
         org_config == get_org_config
         effective_config == EffectiveConfig(org_config, get_app_config(w.app))
         model_ordering == Get(effective_config, "model_ordering", <<>>)
         scope == _compute_scope(org_config, OrgId, w.app)
         day == _compute_org_day(effective_config.timezone)
         sticky_state == get_sticky_state(scope, day)
         r == select_model(w.app, w.usage, sticky_state, org_config, effective_config)
         seen == [scope |-> scope, day |-> day, sticky_state |-> sticky_state,
                  usage |-> w.usage, usage_day |-> w.usage_day,
                  first_under |-> FirstUnderQuota(model_ordering,
                                    Get(effective_config, "quotas", <<>>), w.usage),
                  prev_index |-> Get(selPrev, <<scope, day>>, -1)]
     IN /\ resp' = [resp EXCEPT ![h] = r @@ seen]
        /\ selPrev' = IF r.code = 200
                      THEN [k \in DOMAIN selPrev \cup {<<scope, day>>} |->
                              IF k = <<scope, day>> THEN r.index ELSE selPrev[k]]
                      ELSE selPrev
  /\ handler' = [handler EXCEPT ![h] = Idle]
  /\ UNCHANGED <<authVars, costVars, auxVars>>
  /\ UNCHANGED <<now, orgConfig, appConfig, profiles, pricing_service, shards,
                 dailyTotals, sticky, hist, lastPut, ops>>

----------------------------------------------------------------------------
(* Writers of the sticky-state and daily-total tables.  The bridge offers   *)
(* put_sticky_state and put_daily_total; whoever calls them runs beside the *)
(* request handlers.                                                        *)

Scopes == {_compute_scope(orgConfig, OrgId, a) : a \in Apps}
Today == _compute_org_day(orgConfig.timezone)
DailyCosts == {6, 20}

PutStickyState(scope, day, active_model_index) ==
  /\ ops' = ops + 1
  /\ LET r == put_sticky_state(sticky, scope, day, Ladder3[active_model_index + 1],
                               active_model_index, "QUOTA_EXCEEDED")
     IN /\ sticky' = r.table
        /\ lastPut' = [scope |-> scope, day |-> day, index |-> active_model_index,
                       before |-> get_sticky_state(scope, day),
                       after |-> Get(r.table, <<scope, day>>, None), ok |-> r.ok]
  /\ UNCHANGED <<authVars, costVars, auxVars>>
  /\ UNCHANGED <<now, orgConfig, appConfig, profiles, pricing_service, shards,
                 dailyTotals, handler, resp, hist, selPrev>>

PutDailyTotal(scope, day, model_label, cost_usd_micros) ==
  /\ ops' = ops + 1
  /\ dailyTotals' = put_daily_total(dailyTotals, scope, day, model_label,
                                    cost_usd_micros, cost_usd_micros, 0, 1)
  /\ UNCHANGED <<authVars, costVars, auxVars>>
  /\ UNCHANGED <<now, orgConfig, appConfig, profiles, pricing_service, shards,
                 sticky, handler, resp, hist, selPrev, lastPut>>

----------------------------------------------------------------------------
(* The clock *)

Tick ==
  /\ now < MaxNow
  /\ now' = now + 1
  /\ UNCHANGED <<authVars, costVars, auxVars>>
  /\ UNCHANGED <<orgConfig, appConfig, profiles, pricing_service, shards,
                 dailyTotals, sticky, handler, resp, hist, selPrev, lastPut, ops>>

----------------------------------------------------------------------------

----------------------------------------------------------------------------
(* Credentials and tokens *)

\* Bounds of the credential and token model
MaxAuthOps == 3
MaxClock == 2

AccessTokenExpireSeconds == 3600
RefreshTokenExpireSeconds == 2592000
SecondsPerHour == 3600

\* Python None where an application id is expected
NoApp == "None"

\* client_id strings and what obtain_token's parsing makes of them:
\* "org-{org_id}" or "org-{org_id}-app-{app_id}".  The third client is of an
\* organisation whose id is a UUID.
ParseClientId ==
  ("org-o1" :> [org_id |-> "o1", app_id |-> NoApp]) @@
  ("org-o1-app-a2" :> [org_id |-> "o1", app_id |-> "a2"]) @@
  ("org-" \o R2 :> [org_id |-> R2, app_id |-> NoApp])
Clients == DOMAIN ParseClientId

\* refresh_token's parsing of the sub claim: client_id.split('-')[1] and the
\* text after '-app-'.  The second piece of a UUID split at '-' is its
\* first group.
ParseSub ==
  ("org-o1" :> [org_id |-> "o1", app_id |-> NoApp]) @@
  ("org-o1-app-a2" :> [org_id |-> "o1", app_id |-> "a2"]) @@
  ("org-" \o R2 :> [org_id |-> "a1b2c3d4", app_id |-> NoApp])

\* int(time.time())
Epoch == clock * SecondsPerHour

\* JWTHandler.hash_secret and verify_secret (bcrypt): a hash verifies exactly
\* the secret it was made from.
hash_secret(secret) == <<"bcrypt", secret>>
verify_secret(plain_secret, hashed_secret) == hashed_secret = hash_secret(plain_secret)

\* JWTHandler.create_access_token; sig is "ok" for a token signed with the
\* service key.
create_access_token(client_id, org_id, app_id, jti) ==
  [sub |-> client_id, org_id |-> org_id, app_id |-> app_id,
   token_type |-> "access", jti |-> jti,
   exp |-> Epoch + AccessTokenExpireSeconds, sig |-> "ok"]

\* JWTHandler.create_refresh_token (no org_id nor app_id claim)
create_refresh_token(client_id, jti) ==
  [sub |-> client_id, org_id |-> NoApp, app_id |-> NoApp,
   token_type |-> "refresh", jti |-> jti,
   exp |-> Epoch + RefreshTokenExpireSeconds, sig |-> "ok"]

\* JWTHandler.decode_token: jwt.decode checks the signature and exp.
decode_token(token) == token.sig = "ok" /\ ~(token.exp < Epoch)

\* JWTHandler.verify_token_type
verify_token_type(payload, expected_type) == payload.token_type = expected_type

is_token_revoked(token_jti) == token_jti \in DOMAIN revoked

\* DynamoDBBridge.revoke_token: put_item keyed by the jti.
revoke_token(table, token_jti, token_type, client_id, original_expiry_epoch) ==
  LET item == [token_jti |-> token_jti, token_type |-> token_type,
               client_id |-> client_id,
               original_expiry_epoch |-> original_expiry_epoch]
  IN [j \in DOMAIN table \cup {token_jti} |-> IF j = token_jti THEN item ELSE table[j]]

\* get_org_config / get_app_config as the credential handlers use them.
ClientConfig(org_id, app_id) == Get(credentials, <<org_id, app_id>>, None)

\* Tokens a caller can present: the ones issued, and copies whose signature
\* does not verify.
TokenInputs == issued \cup {[t EXCEPT !.sig = "bad"] : t \in issued}

\* Secrets a caller can present: the provisioned one, the ones generated by
\* rotate requests, and a wrong one.
SecretInputs ==
  {0, -1} \cup {rot[c].new : c \in {x \in Clients : rot[x] # None}}

meterVars == <<now, orgConfig, appConfig, pricing_service, shards, dailyTotals,
               sticky, handler, resp, hist, selPrev, lastPut>>

\* POST /auth/token (obtain_token).  The secret is verified against
\* client_secret_hash only: the grace-period block of the handler is empty.
ObtainToken(client_id, client_secret) ==
  LET p == ParseClientId[client_id]
      config == ClientConfig(p.org_id, p.app_id)
      ok == /\ config # None
            /\ config.client_id = client_id
            /\ verify_secret(client_secret, config.client_secret_hash)
      access_token == create_access_token(client_id, p.org_id, p.app_id, nextJti)
      refresh_token == create_refresh_token(client_id, nextJti + 1)
  IN
  /\ issued' = IF ok THEN issued \cup {access_token, refresh_token} ELSE issued
  /\ nextJti' = IF ok THEN nextJti + 2 ELSE nextJti
  /\ authLast' = [op |-> "token", client_id |-> client_id,
                  client_secret |-> client_secret, at |-> Epoch,
                  code |-> IF ok THEN 200 ELSE 401, rot |-> rot[client_id]]
  /\ ops' = ops + 1
  /\ UNCHANGED <<clock, bridge, credentials, revoked, rot>>
  /\ UNCHANGED <<meterVars, profiles, costVars, auxVars>>

\* What a bridge with the rotate methods the routes call would store, from
\* the keyword arguments of the call.
rotate_credentials(config, new_secret_hash, old_secret_hash, grace_expires_at_epoch) ==
  [client_id |-> config.client_id,
   client_secret_hash |-> new_secret_hash,
   client_secret_hash_old |-> old_secret_hash,
   client_secret_rotation_grace_expires_at_epoch |-> grace_expires_at_epoch]

\* POST .../credentials/rotate (rotate_org_credentials, rotate_app_credentials;
\* app_id is NoApp on the org route).  DynamoDBBridge has no
\* rotate_org_credentials nor rotate_app_credentials method: the call raises
\* AttributeError, the request is answered 500 and nothing is stored.
\* generate_secret is modelled by a number no earlier secret has.
Rotate(org_id, app_id, grace_period_hours) ==
  LET existing == ClientConfig(org_id, app_id)
      new_secret == ops + 1
      new_secret_hash == hash_secret(new_secret)
      old_secret_hash == existing.client_secret_hash
      grace_expires_at_epoch == Epoch + grace_period_hours * SecondsPerHour
      stored == bridge = "RotatingBridge"
  IN
  /\ existing # None
  /\ credentials' =
       IF stored
       THEN [credentials EXCEPT ![<<org_id, app_id>>] =
               rotate_credentials(existing, new_secret_hash, old_secret_hash, grace_expires_at_epoch)]
       ELSE credentials
  /\ rot' = [rot EXCEPT ![existing.client_id] =
               [at |-> Epoch, grace_period_hours |-> grace_period_hours,
                new |-> new_secret, prev |-> old_secret_hash[2],
                code |-> IF stored THEN 200 ELSE 500]]
  /\ authLast' = [op |-> "rotate", client_id |-> existing.client_id, at |-> Epoch,
                  code |-> IF stored THEN 200 ELSE 500]
  /\ ops' = ops + 1
  /\ UNCHANGED <<clock, bridge, issued, revoked, nextJti>>
  /\ UNCHANGED <<meterVars, profiles, costVars, auxVars>>

\* An hour passes.
AuthTick ==
  /\ clock < MaxClock
  /\ clock' = clock + 1
  /\ UNCHANGED <<bridge, credentials, issued, revoked, nextJti, rot, authLast>>
  /\ UNCHANGED <<meterVars, profiles, ops, costVars, auxVars>>

\* POST /auth/refresh (refresh_token)
RefreshToken(token) ==
  LET ok == /\ decode_token(token)
            /\ verify_token_type(token, "refresh")
            /\ ~is_token_revoked(token.jti)
      p == ParseSub[token.sub]
      access_token == create_access_token(token.sub, p.org_id, p.app_id, nextJti)
  IN
  /\ issued' = IF ok THEN issued \cup {access_token} ELSE issued
  /\ nextJti' = IF ok THEN nextJti + 1 ELSE nextJti
  /\ authLast' = [op |-> "refresh", token |-> token, at |-> Epoch,
                  was_revoked |-> is_token_revoked(token.jti),
                  access_token |-> IF ok THEN access_token ELSE None,
                  code |-> IF ok THEN 200 ELSE 401]
  /\ ops' = ops + 1
  /\ UNCHANGED <<clock, bridge, credentials, revoked, rot>>
  /\ UNCHANGED <<meterVars, profiles, costVars, auxVars>>

\* POST /auth/revoke (revoke_token).  The authorizing token and the token to
\* be revoked are both passed through decode_token and nothing else.
RevokeToken(auth_token, token) ==
  LET ok == /\ decode_token(auth_token)
            /\ decode_token(token)
            /\ auth_token.sub = token.sub
  IN
  /\ revoked' = IF ok
                THEN revoke_token(revoked, token.jti, token.token_type, token.sub, token.exp)
                ELSE revoked
  /\ authLast' = [op |-> "revoke", auth_token |-> auth_token, token |-> token,
                  at |-> Epoch,
                  was_revoked |-> is_token_revoked(auth_token.jti),
                  inserted |-> ok,
                  code |-> IF ok THEN 204 ELSE 401,
                  error |-> IF ok THEN "" ELSE "UNAUTHORIZED"]
  /\ ops' = ops + 1
  /\ UNCHANGED <<clock, bridge, credentials, issued, nextJti, rot>>
  /\ UNCHANGED <<meterVars, profiles, costVars, auxVars>>

\* dependencies.get_current_user
get_current_user(token) ==
  IF /\ decode_token(token)
     /\ verify_token_type(token, "access")
     /\ ~is_token_revoked(token.jti)
  THEN [client_id |-> token.sub, org_id |-> token.org_id, app_id |-> token.app_id]
  ELSE [err |-> "UNAUTHORIZED"]

\* The test the usage, usage batch, model-selection and app aggregates routes
\* make before anything else: InvalidConfigException on a mismatch.
binding_ok(current_user, org_id, app_id) ==
  /\ current_user.org_id = org_id
  /\ ~(current_user.app_id # NoApp /\ current_user.app_id # app_id)

\* Routes that make the test, and the inference-profile routes, which do not.
BoundEndpoints == {"usage", "usage_batch", "model_selection", "aggregates"}
ProfileEndpoints == {"profile_register", "profile_list", "profile_get"}

\* The profile a register request names: a valid ARN that AWS knows.
ProfileInput ==
  [inference_profile_arn |-> "arn:aws:bedrock:us-east-1:123456789012:inference-profile/p1",
   model_arns |-> ("us-east-1" :> "m-premium")]

\* InferenceProfileService.list_profiles
list_profiles(org_id, app_id) ==
  {k \in DOMAIN profiles : k[1] = org_id /\ k[2] = app_id}

\* A request to /orgs/{org_id}/apps/{app_id}/... carrying a bearer token: the
\* authorizer, the binding test of the route where it has one, and for the
\* inference-profile routes the register, list and get that follow.  The
\* bodies of the usage and model-selection routes are the actions Submit and
\* Select; here `served` records that the request reached the body.
BearerRequest(endpoint, token, org_id, app_id) ==
  LET current_user == get_current_user(token)
      authorized == "err" \notin DOMAIN current_user
      bound == authorized /\ binding_ok(current_user, org_id, app_id)
      served == authorized /\ (endpoint \in ProfileEndpoints \/ bound)
      key == <<org_id, app_id, "premium">>
      found == get_inference_profile(org_id, app_id, "premium") # None
  IN
  /\ profiles' = IF served /\ endpoint = "profile_register"
                 THEN [k \in DOMAIN profiles \cup {key} |->
                         IF k = key THEN ProfileInput ELSE profiles[k]]
                 ELSE profiles
  /\ authLast' = [op |-> "bearer", endpoint |-> endpoint, token |-> token,
                  org_id |-> org_id, app_id |-> app_id, at |-> Epoch,
                  was_revoked |-> is_token_revoked(token.jti),
                  served |-> served,
                  body |-> IF served /\ endpoint = "profile_list"
                           THEN [profiles |-> list_profiles(org_id, app_id)]
                           ELSE IF served /\ endpoint = "profile_get" /\ found
                           THEN [profile |-> get_inference_profile(org_id, app_id, "premium")]
                           ELSE None,
                  code |-> IF ~authorized THEN 401
                           ELSE IF ~served THEN 400
                           ELSE IF endpoint = "profile_register" THEN 201
                           ELSE IF endpoint = "profile_get" /\ ~found THEN 404
                           ELSE 200,
                  error |-> IF ~authorized THEN "UNAUTHORIZED"
                            ELSE IF ~served THEN "INVALID_CONFIG"
                            ELSE IF endpoint = "profile_get" /\ ~found THEN "NOT_FOUND"
                            ELSE ""]
  /\ ops' = ops + 1
  /\ UNCHANGED <<clock, bridge, credentials, issued, revoked, nextJti, rot>>
  /\ UNCHANGED <<meterVars, costVars, auxVars>>

InitStore ==
  /\ now = 0
  /\ appConfig \in [Apps -> AppConfigs \cup {None}]
  /\ appConfig["a1"] = None
  /\ appConfig["a2"] # None
  /\ profiles = <<>>
  /\ shards = <<>>
  /\ dailyTotals = <<>>
  /\ sticky = <<>>
  /\ handler = [h \in Handlers |-> Idle]
  /\ resp = [h \in Handlers |-> None]
  /\ hist = {}
  /\ selPrev = <<>>
  /\ lastPut = None
  /\ ops = 0

\* Every client is provisioned with the secret 0; no token is issued yet.
InitCredentials ==
  /\ clock = 0
  /\ credentials = [k \in {<<ParseClientId[c].org_id, ParseClientId[c].app_id>> : c \in Clients} |->
                      [client_id |-> CHOOSE c \in Clients : <<ParseClientId[c].org_id, ParseClientId[c].app_id>> = k,
                       client_secret_hash |-> hash_secret(0)]]
  /\ issued = {}
  /\ revoked = <<>>
  /\ nextJti = 0
  /\ rot = [c \in Clients |-> None]
  /\ authLast = None

InitCost ==
  /\ cost_in = None
  /\ cost_out = None

InitPricingService ==
  /\ _cache = <<>>
  /\ pricing_table = <<>>
  /\ mono = 0
  /\ pcall = [h \in Handlers |-> Idle]

InitAux ==
  /\ legacy = None
  /\ InitPricingService

\* Usage submissions and selections, no other writer.  The metering service
\* is constructed with the pricing service of the routes or with one that
\* takes the region argument.
Init ==
  /\ InitStore
  /\ InitCredentials
  /\ bridge = "DynamoDBBridge"
  /\ InitCost
  /\ InitAux
  /\ orgConfig \in {c \in OrgConfigs : c.quotas.premium > 0}
  /\ pricing_service \in {"PricingService", "RegionPricingService"}

Submit ==
  /\ ops < MaxOps
  /\ \E h \in Handlers, a \in Apps, u \in UsageInputs : SubmitBegin(h, a, u)
SubmitStore == \E h \in Handlers : SubmitWrite(h)
SubmitDone == \E h \in Handlers : SubmitReturn(h)
Select ==
  /\ ops < MaxOps
  /\ \E h \in Handlers, a \in Apps : SelBegin(h, a)
SelectDone == \E h \in Handlers : SelFinish(h)

Next == Submit \/ SubmitStore \/ SubmitDone \/ Select \/ SelectDone \/ Tick

Spec == Init /\ [][Next]_vars

\* Selections beside the writers of the sticky-state and daily-total tables.
InitSelection ==
  /\ InitStore
  /\ InitCredentials
  /\ bridge = "DynamoDBBridge"
  /\ InitCost
  /\ InitAux
  /\ orgConfig \in OrgConfigs
  /\ pricing_service = "PricingService"

SelectS ==
  /\ ops < MaxSelOps
  /\ \E h \in Handlers, a \in Apps : SelBegin(h, a)
StickyWriter ==
  /\ ops < MaxSelOps
  /\ \E scope \in Scopes, i \in 0..(Len(Ladder3) - 1) : PutStickyState(scope, Today, i)
TotalWriter ==
  /\ ops < MaxSelOps
  /\ \E scope \in Scopes, l \in Range(Ladder2), c \in DailyCosts :
    PutDailyTotal(scope, Today, l, c)

NextSelection == SelectS \/ SelectDone \/ StickyWriter \/ TotalWriter \/ Tick

SpecSelection == InitSelection /\ [][NextSelection]_vars

----------------------------------------------------------------------------
(* Credentials and tokens: specification *)

\* The provisioning routes are given the DynamoDBBridge of the repository, or
\* a bridge that has the two rotate methods they call.
InitAuth ==
  /\ InitStore
  /\ appConfig["a2"] = [agg_shard_count |-> 3]
  /\ orgConfig = CHOOSE c \in OrgConfigs : c.quotas.premium > 0
  /\ pricing_service = "PricingService"
  /\ InitCredentials
  /\ bridge \in {"DynamoDBBridge", "RotatingBridge"}
  /\ InitCost
  /\ InitAux

PathApps == {"a1", "a2"}
GracePeriods == {0, 1}

Token ==
  /\ ops < MaxAuthOps
  /\ \E c \in Clients, secret \in SecretInputs : ObtainToken(c, secret)
RotateCredentials ==
  /\ ops < MaxAuthOps
  /\ \E k \in DOMAIN credentials, g \in GracePeriods : Rotate(k[1], k[2], g)
Refresh ==
  /\ ops < MaxAuthOps
  /\ \E t \in TokenInputs : RefreshToken(t)
Revoke ==
  /\ ops < MaxAuthOps
  /\ \E a \in TokenInputs, t \in TokenInputs : RevokeToken(a, t)
Bearer ==
  /\ ops < MaxAuthOps
  /\ \E e \in BoundEndpoints \cup ProfileEndpoints, t \in TokenInputs, a \in PathApps :
       BearerRequest(e, t, OrgId, a)

NextAuth == Token \/ RotateCredentials \/ Refresh \/ Revoke \/ Bearer \/ AuthTick

SpecAuth == InitAuth /\ [][NextAuth]_vars

----------------------------------------------------------------------------
(* PricingService.calculate_cost as a function of its arguments *)

MaxTokens == 3

\* Price pairs (input, output) in USD micros per million tokens: the
\* pricebook's, and pairs at the edges of a whole micro.
PricePairs ==
  {<<ModelLabels[l].input_price_usd_micros_per_1m, ModelLabels[l].output_price_usd_micros_per_1m>> :
     l \in DOMAIN ModelLabels}
  \cup {<<0, 0>>, <<1, 999999>>, <<1000000, 500000>>, <<333334, 1000001>>}

CostInputs ==
  [input_tokens : 0..MaxTokens, output_tokens : 0..MaxTokens, price : PricePairs]

InitCalc ==
  /\ InitStore
  /\ appConfig["a2"] = [agg_shard_count |-> 3]
  /\ orgConfig = CHOOSE c \in OrgConfigs : c.quotas.premium > 0
  /\ pricing_service = "PricingService"
  /\ InitCredentials
  /\ bridge = "DynamoDBBridge"
  /\ cost_in \in CostInputs
  /\ cost_out = None
  /\ InitAux

\* A call of calculate_cost with the chosen arguments.
Calculate ==
  /\ cost_out = None
  /\ cost_out' = [value |-> calculate_cost(cost_in.input_tokens, cost_in.output_tokens,
                                           cost_in.price[1], cost_in.price[2])]
  /\ UNCHANGED <<cost_in, authVars, meterVars, profiles, ops, auxVars>>

\* The next call's arguments.
NextCall ==
  /\ cost_out # None
  /\ cost_in' \in CostInputs
  /\ cost_out' = None
  /\ UNCHANGED <<authVars, meterVars, profiles, ops, auxVars>>

NextCalc == Calculate \/ NextCall

SpecCalc == InitCalc /\ [][NextCalc]_vars

----------------------------------------------------------------------------
(* MeteringService.submit_cost, the entry that takes a client-supplied cost *)

MaxLegacyOps == 2

\* cost_usd_micros values a client can send along
ClientCosts == {0, 99999}

\* submit_cost with the client's cost taken as the cost to store.
submit_cost_client_cost(org_id, app_id, u, cost_usd_micros) ==
  LET r == submit_usage_prepare(org_id, app_id, [u EXCEPT !.calling_region = NoRegion])
  IN IF r.status = "pending" THEN [r EXCEPT !.cost_usd_micros = cost_usd_micros] ELSE r

\* MeteringService.submit_cost: submit_usage with every argument but
\* cost_usd_micros (and without calling_region).
submit_cost(org_id, app_id, u, cost_usd_micros) ==
  submit_usage_prepare(org_id, app_id, [u EXCEPT !.calling_region = NoRegion])

\* A whole submit_cost call on the present store: what it raises or returns,
\* and the usage cells after it.
SubmitCostOutcome(app_id, u, cost_usd_micros) ==
  LET r == submit_cost(OrgId, app_id, u, cost_usd_micros) IN
  IF r.status = "failed" THEN [result |-> r, cells |-> shards]
  ELSE [result |-> [status |-> "accepted", scope |-> r.scope, day |-> r.day,
                    shard_id |-> r.shard_id,
                    cost_usd_micros |-> r.cost_usd_micros,
                    daily_total |-> get_daily_total(r.scope, r.day, u.model_label)],
        cells |-> update_usage_shard(shards, r.scope, r.day, u.model_label,
                                     r.shard_id, r.cost_usd_micros, u.input_tokens,
                                     u.output_tokens, 1, u.request_id)]

\* A submit_cost call.  The call is made with cost_usd_micros; beside it the
\* history keeps what the same call would have done on the same store had the
\* client sent other_cost.
SubmitCostCall(app_id, u, cost_usd_micros, other_cost) ==
  LET o == SubmitCostOutcome(app_id, u, cost_usd_micros)
      other == SubmitCostOutcome(app_id, u, other_cost)
  IN
  /\ shards' = o.cells
  /\ hist' = IF o.result.status = "accepted"
             THEN hist \cup {[app |-> app_id, u |-> u, scope |-> o.result.scope,
                               day |-> o.result.day, shard_id |-> o.result.shard_id,
                               cost_usd_micros |-> o.result.cost_usd_micros]}
             ELSE hist
  /\ legacy' = [app |-> app_id, u |-> u, cost_usd_micros |-> cost_usd_micros,
                other_cost |-> other_cost, outcome |-> o, other |-> other]
  /\ ops' = ops + 1
  /\ UNCHANGED <<now, orgConfig, appConfig, profiles, pricing_service, dailyTotals,
                 sticky, handler, resp, selPrev, lastPut>>
  /\ UNCHANGED <<authVars, costVars, pricingVars>>

SubmitCost ==
  /\ ops < MaxLegacyOps
  /\ \E a \in Apps, u \in UsageInputs, c \in ClientCosts, c2 \in ClientCosts :
       c # c2 /\ SubmitCostCall(a, u, c, c2)

NextLegacy == SubmitCost \/ Tick

SpecLegacy == Init /\ [][NextLegacy]_vars

----------------------------------------------------------------------------
(* PUT /orgs/{org_id} and PUT /orgs/{org_id}/apps/{app_id}                  *)
(* The stored item is kept in two parts: its client_id and secret hash in   *)
(* credentials, its other fields in orgConfig / appConfig.                  *)

MaxProvOps == 3

CredentialKeys == {"client_id", "client_secret_hash"}

Restrict(f, S) == [k \in S \cap DOMAIN f |-> f[k]]

\* dict.update
Update(d, o) == [k \in DOMAIN d \cup DOMAIN o |-> IF k \in DOMAIN o THEN o[k] ELSE d[k]]

\* Bodies of PUT /orgs/{org_id}: a key that is absent stands for None.
OrgRequests ==
  { [timezone |-> "UTC", quota_scope |-> "ORG", model_ordering |-> Ladder3,
     quotas |-> [premium |-> 18, standard |-> 6, economy |-> 1]],
    [timezone |-> "UTC", quota_scope |-> "ORG", model_ordering |-> Ladder2,
     quotas |-> [premium |-> -1, standard |-> 3]],
    [timezone |-> "UTC", quota_scope |-> "ORG", model_ordering |-> Ladder2,
     quotas |-> [premium |-> 6]],
    [timezone |-> "UTC", quota_scope |-> "ORG", model_ordering |-> <<"premium", "turbo">>,
     quotas |-> [premium |-> 6, turbo |-> 3]],
    [timezone |-> "UTC", quota_scope |-> "APP", model_ordering |-> Ladder2,
     quotas |-> [premium |-> 6, standard |-> 3],
     overrides |-> [agg_shard_count |-> 3]],
    [timezone |-> "UTC", quota_scope |-> "ORG", model_ordering |-> Ladder2,
     quotas |-> [premium |-> 6, standard |-> 3],
     overrides |-> [client_secret_hash |-> <<"bcrypt", -1>>]] }

\* Bodies of PUT /orgs/{org_id}/apps/{app_id}
AppRequests ==
  { [app_name |-> "app"],
    [app_name |-> "app", model_ordering |-> Ladder2,
     quotas |-> [premium |-> 6, standard |-> 3]],
    [app_name |-> "app", model_ordering |-> <<"premium", "economy">>,
     quotas |-> [premium |-> 6]],
    [app_name |-> "app", overrides |-> [client_secret_hash |-> <<"bcrypt", -1>>]] }

\* OrgRegistrationRequest.validate_quotas
validate_quotas(request) ==
  \A label \in Range(request.model_ordering) : label \in DOMAIN request.quotas

\* The credential part of a stored item, <<>> when there is no item.
StoredHash(org_id, app_id) ==
  IF <<org_id, app_id>> \in DOMAIN credentials
  THEN credentials[<<org_id, app_id>>].client_secret_hash
  ELSE <<>>

PutCredentials(org_id, app_id, config_data) ==
  [k \in DOMAIN credentials \cup {<<org_id, app_id>>} |->
     IF k = <<org_id, app_id>> THEN Restrict(config_data, CredentialKeys)
     ELSE credentials[k]]

\* register_or_update_org.  generate_secret is modelled by a number no
\* earlier secret has.
RegisterOrg(org_id, request) ==
  LET existing_org == get_org_config
      is_new == existing_org = None
      client_id == "org-" \o org_id
      client_secret == ops + 1
      client_secret_hash == IF is_new THEN hash_secret(client_secret)
                            ELSE StoredHash(org_id, NoApp)
      config_data ==
        Update([timezone |-> request.timezone, quota_scope |-> request.quota_scope,
                model_ordering |-> request.model_ordering, quotas |-> request.quotas,
                client_id |-> client_id, client_secret_hash |-> client_secret_hash],
               Get(request, "overrides", <<>>))
      code == IF ~validate_quotas(request) THEN 422
              ELSE IF \E label \in Range(request.model_ordering) : label \notin DOMAIN ModelLabels
              THEN 400
              ELSE 200
  IN
  /\ orgConfig' = IF code = 200
                  THEN Restrict(config_data, DOMAIN config_data \ CredentialKeys)
                  ELSE orgConfig
  /\ credentials' = IF code = 200 THEN PutCredentials(org_id, NoApp, config_data)
                    ELSE credentials
  /\ authLast' = [op |-> "register", client_id |-> client_id, request |-> request,
                  existed |-> ~is_new, code |-> code,
                  error |-> IF code = 422 THEN "VALIDATION_ERROR"
                            ELSE IF code = 400 THEN "INVALID_CONFIG" ELSE "",
                  secret_returned |-> (code = 200 /\ is_new),
                  client_secret |-> IF code = 200 /\ is_new THEN client_secret ELSE 0,
                  hash_before |-> StoredHash(org_id, NoApp),
                  hash_after |-> IF code = 200 THEN config_data.client_secret_hash
                                 ELSE StoredHash(org_id, NoApp)]
  /\ ops' = ops + 1
  /\ UNCHANGED <<now, appConfig, profiles, pricing_service, shards, dailyTotals,
                 sticky, handler, resp, hist, selPrev, lastPut>>
  /\ UNCHANGED <<clock, bridge, issued, revoked, nextJti, rot, costVars, auxVars>>

\* register_or_update_app
RegisterApp(org_id, app_id, request) ==
  LET org_config == get_org_config
      existing_app == get_app_config(app_id)
      is_new == existing_app = None
      client_id == "org-" \o org_id \o "-app-" \o app_id
      client_secret == ops + 1
      client_secret_hash == IF is_new THEN hash_secret(client_secret)
                            ELSE StoredHash(org_id, app_id)
      config_data ==
        Update(Update([app_name |-> request.app_name, client_id |-> client_id,
                       client_secret_hash |-> client_secret_hash],
                      Restrict(request, {"model_ordering", "quotas"})),
               Get(request, "overrides", <<>>))
      code == IF org_config = None THEN 400 ELSE 200
  IN
  /\ appConfig' = IF code = 200
                  THEN [appConfig EXCEPT ![app_id] =
                          Restrict(config_data, DOMAIN config_data \ CredentialKeys)]
                  ELSE appConfig
  /\ credentials' = IF code = 200 THEN PutCredentials(org_id, app_id, config_data)
                    ELSE credentials
  /\ authLast' = [op |-> "register", client_id |-> client_id, request |-> request,
                  existed |-> ~is_new, code |-> code,
                  error |-> IF code = 400 THEN "INVALID_CONFIG" ELSE "",
                  secret_returned |-> (code = 200 /\ is_new),
                  client_secret |-> IF code = 200 /\ is_new THEN client_secret ELSE 0,
                  hash_before |-> StoredHash(org_id, app_id),
                  hash_after |-> IF code = 200 THEN config_data.client_secret_hash
                                 ELSE StoredHash(org_id, app_id)]
  /\ ops' = ops + 1
  /\ UNCHANGED <<now, orgConfig, profiles, pricing_service, shards, dailyTotals,
                 sticky, handler, resp, hist, selPrev, lastPut>>
  /\ UNCHANGED <<clock, bridge, issued, revoked, nextJti, rot, costVars, auxVars>>

\* Nothing is registered yet.
InitProvisioning ==
  /\ now = 0
  /\ orgConfig = None
  /\ appConfig = [a \in Apps |-> None]
  /\ profiles = <<>>
  /\ pricing_service = "PricingService"
  /\ shards = <<>>
  /\ dailyTotals = <<>>
  /\ sticky = <<>>
  /\ handler = [h \in Handlers |-> Idle]
  /\ resp = [h \in Handlers |-> None]
  /\ hist = {}
  /\ selPrev = <<>>
  /\ lastPut = None
  /\ ops = 0
  /\ clock = 0
  /\ bridge = "DynamoDBBridge"
  /\ credentials = <<>>
  /\ issued = {}
  /\ revoked = <<>>
  /\ nextJti = 0
  /\ rot = [c \in Clients |-> None]
  /\ authLast = None
  /\ InitCost
  /\ InitAux

PutOrg ==
  /\ ops < MaxProvOps
  /\ \E request \in OrgRequests : RegisterOrg(OrgId, request)
PutApp ==
  /\ ops < MaxProvOps
  /\ \E a \in Apps, request \in AppRequests : RegisterApp(OrgId, a, request)

NextProvisioning == PutOrg \/ PutApp

SpecProvisioning == InitProvisioning /\ [][NextProvisioning]_vars

----------------------------------------------------------------------------
(* Submissions whose timestamp is around the edges of the accepted window *)

MaxWindowOps == 2

\* timestamp - now, in seconds
TimestampOffsets ==
  {0, 1, MaxFutureSeconds, MaxFutureSeconds + 1, -MaxPastSeconds, -MaxPastSeconds - 1}

WindowInput(request_id, ts_off) ==
  [request_id |-> request_id, model_label |-> "premium", bedrock_model_id |-> "m-premium",
   input_tokens |-> 1, output_tokens |-> 1, status |-> "OK", ts_off |-> ts_off,
   calling_region |-> NoRegion]

SubmitAt ==
  /\ ops < MaxWindowOps
  /\ \E h \in Handlers, a \in Apps, id \in {R1, R2}, ts_off \in TimestampOffsets :
       SubmitBegin(h, a, WindowInput(id, ts_off))

NextWindow == SubmitAt \/ SubmitStore \/ SubmitDone

SpecWindow == Init /\ [][NextWindow]_vars

----------------------------------------------------------------------------
(* Submissions for labels with and without a registered inference profile *)

MaxResolveOps == 2

\* An app ladder naming a pricebook label, a label that only a registered
\* profile knows, and a label nothing knows (register_or_update_app stores a
\* ladder as given).
ProfileLadder == <<"premium", "tenant-x", "ghost">>

ProfileAppConfig ==
  [model_ordering |-> ProfileLadder,
   quotas |-> ("premium" :> 18) @@ ("tenant-x" :> 6) @@ ("ghost" :> 1)]

ResolveInput(request_id, model_label, calling_region) ==
  [request_id |-> request_id, model_label |-> model_label, bedrock_model_id |-> "m-economy",
   input_tokens |-> 1, output_tokens |-> 1, status |-> "OK", ts_off |-> 0,
   calling_region |-> calling_region]

\* App a1 has registered profiles for premium and tenant-x, app a2 none.
InitResolve ==
  /\ now = 0
  /\ orgConfig = CHOOSE c \in OrgConfigs : c.quotas.premium > 0 /\ c.quota_scope = "APP"
  /\ appConfig = [a \in Apps |-> ProfileAppConfig]
  /\ profiles = [k \in {<<OrgId, "a1", "premium">>, <<OrgId, "a1", "tenant-x">>} |-> ProfileInput]
  /\ pricing_service \in {"PricingService", "RegionPricingService"}
  /\ shards = <<>>
  /\ dailyTotals = <<>>
  /\ sticky = <<>>
  /\ handler = [h \in Handlers |-> Idle]
  /\ resp = [h \in Handlers |-> None]
  /\ hist = {}
  /\ selPrev = <<>>
  /\ lastPut = None
  /\ ops = 0
  /\ InitCredentials
  /\ bridge = "DynamoDBBridge"
  /\ InitCost
  /\ InitAux

SubmitLabel ==
  /\ ops < MaxResolveOps
  /\ \E h \in Handlers, a \in Apps, id \in {R1, R2}, l \in Range(ProfileLadder), cr \in {NoRegion, "us-east-1"} :
       SubmitBegin(h, a, ResolveInput(id, l, cr))

NextResolve == SubmitLabel \/ SubmitStore \/ SubmitDone

SpecResolve == InitResolve /\ [][NextResolve]_vars

----------------------------------------------------------------------------
(* PricingService.get_pricing on one service object, beside a writer of the  *)
(* store's price cache                                                      *)

MaxPricingOps == 3
MaxMono == 301

CacheTtl == 300

PricingDate == "2026-01-29"

\* m-premium is in the pricebook; m-store and m-unknown are not.
PricedModels == {"m-premium", "m-store", "m-unknown"}

\* Items of the store's price cache
StorePrices ==
  { [input_price_usd_micros_per_1m |-> 3500000, output_price_usd_micros_per_1m |-> 16000000],
    [input_price_usd_micros_per_1m |-> 3600000, output_price_usd_micros_per_1m |-> 17000000] }

cache_key(bedrock_model_id, date) == bedrock_model_id \o ":" \o date

\* if time.time() - cached_time <= self._cache_ttl
MemoFresh_inclusive(cached_time, t) == t - cached_time <= CacheTtl

\* if time.time() - cached_time < self._cache_ttl
MemoFresh(cached_time, t) == t - cached_time < CacheTtl

\* DynamoDBBridge.get_pricing without a region
db_get_pricing(bedrock_model_id, date) ==
  Get(pricing_table, <<bedrock_model_id, date>>, None)

\* get_pricing up to its await: the memo is consulted.
PricingBegin(h, bedrock_model_id, date) ==
  LET k == cache_key(bedrock_model_id, date)
      hit == k \in DOMAIN _cache /\ MemoFresh(_cache[k].cached_time, mono)
      call == [bedrock_model_id |-> bedrock_model_id, date |-> date,
               checked_at |-> mono, memo |-> Get(_cache, k, None)]
  IN
  /\ pcall[h].pc # "read"
  /\ pcall' = [pcall EXCEPT ![h] =
                 IF hit
                 THEN [pc |-> "done", result |-> _cache[k].cached_data, reads |-> 0] @@ call
                 ELSE [pc |-> "read"] @@ call]
  /\ ops' = ops + 1
  /\ UNCHANGED <<_cache, pricing_table, mono, legacy>>
  /\ UNCHANGED <<meterVars, profiles, authVars, costVars>>

\* get_pricing from the store's answer on: the store value or else the
\* pricebook value is written into the memo and returned; ValueError when
\* there is neither.
PricingRead(h) ==
  LET c == pcall[h]
      k == cache_key(c.bedrock_model_id, c.date)
      stored == db_get_pricing(c.bedrock_model_id, c.date)
      pricing == IF stored # None THEN stored
                 ELSE _get_pricing_from_config(c.bedrock_model_id)
  IN
  /\ c.pc = "read"
  /\ _cache' = IF pricing = None THEN _cache
               ELSE [x \in DOMAIN _cache \cup {k} |->
                       IF x = k THEN [cached_data |-> pricing, cached_time |-> mono]
                       ELSE _cache[x]]
  /\ pcall' = [pcall EXCEPT ![h] =
                 [pc |-> "done", reads |-> 1, stored |-> stored, read_at |-> mono,
                  result |-> IF pricing = None THEN [err |-> "ValueError"] ELSE pricing,
                  memo_before |-> Get(_cache, k, None),
                  memo_after |-> Get(_cache', k, None)] @@ c]
  /\ UNCHANGED <<pricing_table, mono, legacy, ops>>
  /\ UNCHANGED <<meterVars, profiles, authVars, costVars>>

\* DynamoDBBridge.put_pricing
put_pricing(bedrock_model_id, date, pricing) ==
  /\ pricing_table' = [x \in DOMAIN pricing_table \cup {<<bedrock_model_id, date>>} |->
                         IF x = <<bedrock_model_id, date>> THEN pricing
                         ELSE pricing_table[x]]
  /\ ops' = ops + 1
  /\ UNCHANGED <<_cache, mono, pcall, legacy>>
  /\ UNCHANGED <<meterVars, profiles, authVars, costVars>>

GetPricing ==
  /\ ops < MaxPricingOps
  /\ \E h \in Handlers, id \in PricedModels : PricingBegin(h, id, PricingDate)
GetPricingRead == \E h \in Handlers : PricingRead(h)
PutPricing ==
  /\ ops < MaxPricingOps
  /\ \E id \in {"m-premium", "m-store"}, pricing \in StorePrices :
       put_pricing(id, PricingDate, pricing)
PricingTick ==
  /\ \E t \in {1, CacheTtl, CacheTtl + 1} :
       /\ mono < t
       /\ t <= MaxMono
       /\ mono' = t
  /\ UNCHANGED <<_cache, pricing_table, pcall, legacy, ops>>
  /\ UNCHANGED <<meterVars, profiles, authVars, costVars>>

NextPricing == GetPricing \/ GetPricingRead \/ PutPricing \/ PricingTick

\* One service object with an empty memo, and an empty price cache in the store.
InitPricing ==
  /\ Init
  /\ orgConfig = (CHOOSE c \in OrgConfigs : c.quotas.premium > 0)
  /\ appConfig["a2"] = [agg_shard_count |-> 3]
  /\ pricing_service = "PricingService"

SpecPricing == InitPricing /\ [][NextPricing]_vars

----------------------------------------------------------------------------
(* Selections around the tight-mode threshold *)

MaxModeOps == 3

\* Organisations with the default threshold and with a configured one
\* (tight_mode_threshold_pct arrives in the registration's overrides).
ModeOrgConfigs ==
  { [timezone |-> "UTC", quota_scope |-> "ORG", model_ordering |-> Ladder2,
     quotas |-> [premium |-> 100, standard |-> 20]],
    [timezone |-> "UTC", quota_scope |-> "ORG", model_ordering |-> Ladder2,
     quotas |-> [premium |-> 100, standard |-> 20], tight_mode_threshold_pct |-> 90],
    [timezone |-> "UTC", quota_scope |-> "ORG", model_ordering |-> Ladder2,
     quotas |-> [premium |-> 100, standard |-> 20], tight_mode_threshold_pct |-> 29] }

ModeCosts == {18, 19, 28, 29, 94, 95, 100}

InitMode ==
  /\ InitStore
  /\ appConfig["a2"] = [agg_shard_count |-> 3]
  /\ InitCredentials
  /\ bridge = "DynamoDBBridge"
  /\ InitCost
  /\ InitAux
  /\ orgConfig \in ModeOrgConfigs
  /\ pricing_service = "PricingService"

SelectMode ==
  /\ ops < MaxModeOps
  /\ \E h \in Handlers, a \in Apps : SelBegin(h, a)
ModeTotalWriter ==
  /\ ops < MaxModeOps
  /\ \E l \in Range(Ladder2), c \in ModeCosts :
       PutDailyTotal(_compute_scope(orgConfig, OrgId, "a1"), Today, l, c)

NextMode == SelectMode \/ SelectDone \/ ModeTotalWriter

SpecMode == InitMode /\ [][NextMode]_vars

----------------------------------------------------------------------------
(* Selections across a change of the organisation's day *)

MaxRollOps == 3

\* The organisation's day changes when the clock advances.
InitRollover ==
  /\ InitStore
  /\ appConfig["a2"] = [agg_shard_count |-> 3]
  /\ InitCredentials
  /\ bridge = "DynamoDBBridge"
  /\ InitCost
  /\ InitAux
  /\ orgConfig \in {[c EXCEPT !.timezone = "Pacific/Auckland"] : c \in {x \in OrgConfigs : x.quotas.premium > 0}}
  /\ pricing_service = "PricingService"

SelectR ==
  /\ ops < MaxRollOps
  /\ \E h \in Handlers, a \in Apps : SelBegin(h, a)
StickyWriterR ==
  /\ ops < MaxRollOps
  /\ \E scope \in Scopes, i \in 1..(Len(Ladder3) - 1) : PutStickyState(scope, Today, i)
TotalWriterR ==
  /\ ops < MaxRollOps
  /\ \E scope \in Scopes, c \in DailyCosts : PutDailyTotal(scope, Today, "premium", c)

NextRollover == SelectR \/ SelectDone \/ StickyWriterR \/ TotalWriterR \/ Tick

SpecRollover == InitRollover /\ [][NextRollover]_vars

----------------------------------------------------------------------------
(* POST /orgs/{o}/apps/{a}/usage/batch *)

MaxBatchOps == 2

\* BatchUsageSubmissionRequest.requests: Field(..., min_length=1, max_length=100)
BatchMinLength == 1
BatchMaxLength == 100

\* A record whose label is on no ladder, one that is too old, one that is a
\* second ahead of the server's clock.
OffLadderRecord(request_id) == [WindowInput(request_id, 0) EXCEPT !.model_label = "turbo"]
StaleRecord(request_id) == WindowInput(request_id, -MaxPastSeconds - 1)
AheadRecord(request_id) == WindowInput(request_id, 1)

Batches ==
  { <<>>,
    <<WindowInput(R1, 0)>>,
    <<WindowInput(R1, 0), OffLadderRecord(R2), StaleRecord(R2), WindowInput(R2, 0)>>,
    <<WindowInput(R1, 0), AheadRecord(R2), WindowInput(R2, 0)>>,
    [i \in 1..BatchMaxLength |-> WindowInput(R1, 0)],
    [i \in 1..(BatchMaxLength + 1) |-> WindowInput(R1, 0)] }

\* The body passes pydantic: the list's length and every record's validators.
batch_is_valid(requests) ==
  /\ BatchMinLength <= Len(requests)
  /\ Len(requests) <= BatchMaxLength
  /\ \A i \in 1..Len(requests) : validate_timestamp(requests[i])

\* The handler takes the request; an invalid body is answered 422.
BatchBegin(h, app_id, requests) ==
  /\ handler[h].pc = "idle"
  /\ ops' = ops + 1
  /\ IF batch_is_valid(requests)
     THEN /\ handler' = [handler EXCEPT ![h] =
                           [pc |-> "batch", app |-> app_id, requests |-> requests,
                            results |-> <<>>, accepted |-> 0, failed |-> 0]]
          /\ resp' = [resp EXCEPT ![h] = None]
     ELSE /\ resp' = [resp EXCEPT ![h] =
                        [op |-> "batch", app |-> app_id, requests |-> requests,
                         code |-> 422, error |-> "VALIDATION_ERROR"]]
          /\ UNCHANGED handler
  /\ UNCHANGED <<authVars, costVars, auxVars>>
  /\ UNCHANGED <<now, orgConfig, appConfig, profiles, pricing_service, shards,
                 dailyTotals, sticky, hist, selPrev, lastPut>>

\* One turn of the loop: submit_usage for the next record, any exception
\* caught and recorded as a failed result.
BatchStep(h) ==
  /\ handler[h].pc = "batch"
  /\ Len(handler[h].results) < Len(handler[h].requests)
  /\ LET w == handler[h]
         u == w.requests[Len(w.results) + 1]
         r == submit_usage_prepare(OrgId, w.app, u)
         ok == r.status = "pending"
     IN /\ shards' = IF ok
                     THEN update_usage_shard(shards, r.scope, r.day, u.model_label,
                                             r.shard_id, r.cost_usd_micros,
                                             u.input_tokens, u.output_tokens, 1,
                                             u.request_id)
                     ELSE shards
        /\ handler' = [handler EXCEPT ![h] =
                         [w EXCEPT !.results = Append(@, [request_id |-> u.request_id,
                                                          status |-> IF ok THEN "accepted"
                                                                     ELSE "failed"]),
                                   !.accepted = IF ok THEN @ + 1 ELSE @,
                                   !.failed = IF ok THEN @ ELSE @ + 1]]
  /\ UNCHANGED <<authVars, costVars, auxVars>>
  /\ UNCHANGED <<now, orgConfig, appConfig, profiles, pricing_service,
                 dailyTotals, sticky, resp, hist, selPrev, lastPut, ops>>

\* return BatchUsageSubmissionResponse(...), 207
BatchReturn(h) ==
  /\ handler[h].pc = "batch"
  /\ Len(handler[h].results) = Len(handler[h].requests)
  /\ LET w == handler[h] IN
     resp' = [resp EXCEPT ![h] =
                [op |-> "batch", app |-> w.app, requests |-> w.requests, code |-> 207,
                 accepted |-> w.accepted, failed |-> w.failed, results |-> w.results]]
  /\ handler' = [handler EXCEPT ![h] = Idle]
  /\ UNCHANGED <<authVars, costVars, auxVars>>
  /\ UNCHANGED <<now, orgConfig, appConfig, profiles, pricing_service, shards,
                 dailyTotals, sticky, hist, selPrev, lastPut, ops>>

InitBatch ==
  /\ Init
  /\ orgConfig = (CHOOSE c \in OrgConfigs : c.quotas.premium > 0 /\ c.quota_scope = "APP")
  /\ appConfig["a2"] = [agg_shard_count |-> 3]

SubmitBatch ==
  /\ ops < MaxBatchOps
  /\ \E h \in Handlers, a \in Apps, requests \in Batches : BatchBegin(h, a, requests)
BatchLoop == \E h \in Handlers : BatchStep(h)
BatchDone == \E h \in Handlers : BatchReturn(h)

NextBatch == SubmitBatch \/ BatchLoop \/ BatchDone

SpecBatch == InitBatch /\ [][NextBatch]_vars

----------------------------------------------------------------------------
(* GET /orgs/{o}/apps/{a}/aggregates/today, and the store keys of the       *)
(* writer and the readers                                                   *)

MaxKeyOps == 2

\* submit_usage: scope from the org record, day in the effective timezone.
submit_usage_key(org_id, app_id) ==
  LET org_config == get_org_config
      effective_config == EffectiveConfig(org_config, get_app_config(app_id))
  IN <<_compute_scope(org_config, org_id, app_id), _compute_org_day(effective_config.timezone)>>

\* get_current_usage: scope from the org record, day in the org's timezone.
get_current_usage_key(org_id, app_id) ==
  LET org_config == get_org_config
  IN <<_compute_scope(org_config, org_id, app_id), _compute_org_day(org_config.timezone)>>

\* get_app_aggregates_today: scope from the effective configuration, day in
\* the org's timezone.
aggregates_key(org_id, app_id) ==
  LET org_config == get_org_config
      effective_config == EffectiveConfig(org_config, get_app_config(app_id))
  IN <<_compute_scope(effective_config, org_id, app_id), _compute_org_day(Get(org_config, "timezone", "UTC"))>>

\* The handler reads the configuration and the daily totals of the ladder.
ViewBegin(h, app_id) ==
  /\ handler[h].pc = "idle"
  /\ ops' = ops + 1
  /\ LET org_config == get_org_config
         effective_config == EffectiveConfig(org_config, get_app_config(app_id))
         model_ordering == Get(effective_config, "model_ordering", <<>>)
         k == aggregates_key(OrgId, app_id)
     IN IF org_config = None
        THEN /\ resp' = [resp EXCEPT ![h] = [op |-> "view", app |-> app_id, code |-> 404,
                                             error |-> "NOT_FOUND"]]
             /\ UNCHANGED handler
        ELSE /\ handler' = [handler EXCEPT ![h] =
                              [pc |-> "view", app |-> app_id, scope |-> k[1], day |-> k[2],
                               effective_config |-> effective_config,
                               daily_totals |-> get_daily_totals_batch(k[1], k[2], model_ordering)]]
             /\ resp' = [resp EXCEPT ![h] = None]
  /\ UNCHANGED <<authVars, costVars, auxVars>>
  /\ UNCHANGED <<now, orgConfig, appConfig, profiles, pricing_service, shards,
                 dailyTotals, sticky, hist, selPrev, lastPut>>

\* The handler reads the sticky state and composes the view.  The quotas are
\* read from the key 'model_quotas', the active model from the sticky item's
\* key 'fallback_model_label'.
ViewFinish(h) ==
  /\ handler[h].pc = "view"
  /\ LET w == handler[h]
         model_ordering == Get(w.effective_config, "model_ordering", <<>>)
         sticky_state == get_sticky_state(w.scope, w.day)
         model_quotas == Get(w.effective_config, "model_quotas", <<>>)
     IN resp' = [resp EXCEPT ![h] =
                   [op |-> "view", app |-> w.app, code |-> 200,
                    scope |-> w.scope, day |-> w.day,
                    quota_scope |-> Get(w.effective_config, "quota_scope", "ORG"),
                    sticky_state |-> sticky_state,
                    sticky_fallback_active |-> (sticky_state # None),
                    current_active_model |->
                      IF sticky_state # None
                      THEN Get(sticky_state, "fallback_model_label", NoRegion)
                      ELSE NoRegion,
                    models |-> [l \in Range(model_ordering) |->
                                  LET cost == Spend(w.daily_totals, l)
                                      quota == Get(model_quotas, l, 0)
                                  IN [cost_usd_micros |-> cost,
                                      quota_usd_micros |-> quota,
                                      quota_status |-> IF cost >= quota THEN "EXCEEDED"
                                                       ELSE "NORMAL"]]]]
  /\ handler' = [handler EXCEPT ![h] = Idle]
  /\ UNCHANGED <<authVars, costVars, auxVars>>
  /\ UNCHANGED <<now, orgConfig, appConfig, profiles, pricing_service, shards,
                 dailyTotals, sticky, hist, selPrev, lastPut, ops>>

\* App records with an override of the quota scope beside the others.
KeyAppConfigs == AppConfigs \cup {[quota_scope |-> "APP"]}

InitKeys ==
  /\ now = 0
  /\ appConfig \in [Apps -> KeyAppConfigs \cup {None}]
  /\ appConfig["a1"] = None
  /\ appConfig["a2"] # None
  /\ orgConfig \in {c \in OrgConfigs : c.quotas.premium > 0}
  /\ pricing_service = "RegionPricingService"
  /\ profiles = <<>>
  /\ shards = <<>>
  /\ dailyTotals = <<>>
  /\ sticky = <<>>
  /\ handler = [h \in Handlers |-> Idle]
  /\ resp = [h \in Handlers |-> None]
  /\ hist = {}
  /\ selPrev = <<>>
  /\ lastPut = None
  /\ ops = 0
  /\ InitCredentials
  /\ bridge = "DynamoDBBridge"
  /\ InitCost
  /\ InitAux

SubmitK ==
  /\ ops < MaxKeyOps
  /\ \E h \in Handlers, a \in Apps : SubmitBegin(h, a, WindowInput(R1, 0))
SelectK ==
  /\ ops < MaxKeyOps
  /\ \E h \in Handlers, a \in Apps : SelBegin(h, a)
ViewK ==
  /\ ops < MaxKeyOps
  /\ \E h \in Handlers, a \in Apps : ViewBegin(h, a)
ViewDone == \E h \in Handlers : ViewFinish(h)
StickyWriterK ==
  /\ ops < MaxKeyOps
  /\ \E scope \in Scopes, i \in 1..(Len(Ladder3) - 1) : PutStickyState(scope, Today, i)
TotalWriterK ==
  /\ ops < MaxKeyOps
  /\ \E scope \in Scopes, c \in DailyCosts : PutDailyTotal(scope, Today, "premium", c)

NextKeys == SubmitK \/ SubmitStore \/ SubmitDone \/ SelectK \/ SelectDone \/ ViewK \/ ViewDone \/ StickyWriterK \/ TotalWriterK \/ Tick

SpecKeys == InitKeys /\ [][NextKeys]_vars

----------------------------------------------------------------------------
(* Submissions around updates of the org and app records *)

MaxReconfigOps == 3

\* Updates of the org record: the registered values again, the other quota
\* scope, another shard count.
ReconfigOrgRequests ==
  { [timezone |-> "UTC", quota_scope |-> qs, model_ordering |-> Ladder3,
     quotas |-> [premium |-> 18, standard |-> 6, economy |-> 1]] : qs \in {"ORG", "APP"} }
  \cup
  { [timezone |-> "UTC", quota_scope |-> "ORG", model_ordering |-> Ladder3,
     quotas |-> [premium |-> 18, standard |-> 6, economy |-> 1],
     overrides |-> [agg_shard_count |-> 3]] }

\* Updates of an app record: no override, another shard count.
ReconfigAppRequests ==
  { [app_name |-> "app"],
    [app_name |-> "app", overrides |-> [agg_shard_count |-> 3]] }

InitReconfig ==
  /\ Init
  /\ orgConfig = [timezone |-> "UTC", quota_scope |-> "ORG", model_ordering |-> Ladder3,
                  quotas |-> [premium |-> 18, standard |-> 6, economy |-> 1]]
  /\ appConfig["a2"] = [agg_shard_count |-> 3]
  /\ pricing_service = "RegionPricingService"

SubmitRc ==
  /\ ops < MaxReconfigOps
  /\ \E h \in Handlers, id \in {R1, R2} : SubmitBegin(h, "a1", WindowInput(id, 0))
UpdateOrg ==
  /\ ops < MaxReconfigOps
  /\ \E request \in ReconfigOrgRequests : RegisterOrg(OrgId, request)
UpdateApp ==
  /\ ops < MaxReconfigOps
  /\ \E request \in ReconfigAppRequests : RegisterApp(OrgId, "a1", request)

NextReconfig == SubmitRc \/ SubmitStore \/ SubmitDone \/ UpdateOrg \/ UpdateApp

SpecReconfig == InitReconfig /\ [][NextReconfig]_vars

----------------------------------------------------------------------------
(* Create-or-update and rotate calls in flight together.  A handler reads   *)
(* the stored item, and writes in a later step; app_id is NoApp on the org  *)
(* routes.                                                                   *)

MaxRaceOps == 2

\* The item read by get_org_config / get_app_config: None when absent.
StoredItem(org_id, app_id) ==
  IF (IF app_id = NoApp THEN orgConfig ELSE appConfig[app_id]) = None THEN None
  ELSE ClientConfig(org_id, app_id)

clientIdOf(org_id, app_id) ==
  IF app_id = NoApp THEN "org-" \o org_id ELSE "org-" \o org_id \o "-app-" \o app_id

\* register_or_update_org / _app up to the put: validation, the read of the
\* existing item, the secret of a new client, config_data.
RegisterRead(h, org_id, app_id, request) ==
  LET existing == StoredItem(org_id, app_id)
      is_new == existing = None
      client_secret == ops + 1
      client_secret_hash == IF is_new THEN hash_secret(client_secret)
                            ELSE existing.client_secret_hash
      base == IF app_id = NoApp
              THEN [timezone |-> request.timezone, quota_scope |-> request.quota_scope,
                    model_ordering |-> request.model_ordering, quotas |-> request.quotas]
              ELSE Update([app_name |-> request.app_name],
                          Restrict(request, {"model_ordering", "quotas"}))
      config_data ==
        Update(Update(base, [client_id |-> clientIdOf(org_id, app_id),
                             client_secret_hash |-> client_secret_hash]),
               Get(request, "overrides", <<>>))
      code == IF app_id = NoApp
              THEN IF ~validate_quotas(request) THEN 422
                   ELSE IF \E label \in Range(request.model_ordering) : label \notin DOMAIN ModelLabels
                   THEN 400 ELSE 200
              ELSE IF get_org_config = None THEN 400 ELSE 200
  IN
  /\ handler[h].pc = "idle"
  /\ ops' = ops + 1
  /\ IF code = 200
     THEN /\ handler' = [handler EXCEPT ![h] =
                           [pc |-> "put", org_id |-> org_id, app_id |-> app_id,
                            is_new |-> is_new, client_secret |-> client_secret,
                            config_data |-> config_data]]
          /\ resp' = [resp EXCEPT ![h] = None]
     ELSE /\ resp' = [resp EXCEPT ![h] = [op |-> "register", org_id |-> org_id,
                                          app_id |-> app_id, code |-> code]]
          /\ UNCHANGED handler
  /\ UNCHANGED <<authVars, costVars, auxVars>>
  /\ UNCHANGED <<now, orgConfig, appConfig, profiles, pricing_service, shards,
                 dailyTotals, sticky, hist, selPrev, lastPut>>

\* put_org_config / put_app_config (put_item replaces the whole item) and the
\* response, which carries the secret of a new client.
RegisterWrite(h) ==
  /\ handler[h].pc = "put"
  /\ LET w == handler[h]
         k == <<w.org_id, w.app_id>>
         config == Restrict(w.config_data, DOMAIN w.config_data \ CredentialKeys)
     IN /\ IF w.app_id = NoApp
           THEN orgConfig' = config /\ UNCHANGED appConfig
           ELSE appConfig' = [appConfig EXCEPT ![w.app_id] = config] /\ UNCHANGED orgConfig
        /\ credentials' = PutCredentials(w.org_id, w.app_id, w.config_data)
        /\ resp' = [resp EXCEPT ![h] =
                      [op |-> "register", org_id |-> w.org_id, app_id |-> w.app_id,
                       code |-> 200, status |-> IF w.is_new THEN "created" ELSE "updated",
                       secret_returned |-> w.is_new,
                       client_secret |-> IF w.is_new THEN w.client_secret ELSE 0,
                       at |-> Epoch,
                       before |-> Get(credentials, k, None),
                       after |-> credentials'[k]]]
  /\ handler' = [handler EXCEPT ![h] = Idle]
  /\ UNCHANGED <<clock, bridge, issued, revoked, nextJti, rot, authLast>>
  /\ UNCHANGED <<costVars, auxVars>>
  /\ UNCHANGED <<now, profiles, pricing_service, shards, dailyTotals, sticky, hist,
                 selPrev, lastPut, ops>>

\* rotate_org_credentials / rotate_app_credentials up to the bridge call: the
\* read of the existing item, the new secret, the grace expiry.
RotateRead(h, org_id, app_id, grace_period_hours) ==
  LET existing == StoredItem(org_id, app_id)
      found == (app_id = NoApp \/ get_org_config # None) /\ existing # None
      new_secret == ops + 1
  IN
  /\ handler[h].pc = "idle"
  /\ ops' = ops + 1
  /\ IF found
     THEN /\ handler' = [handler EXCEPT ![h] =
                           [pc |-> "rotate", org_id |-> org_id, app_id |-> app_id,
                            new_secret |-> new_secret,
                            new_secret_hash |-> hash_secret(new_secret),
                            old_secret_hash |-> existing.client_secret_hash,
                            grace_expires_at_epoch |->
                              Epoch + grace_period_hours * SecondsPerHour]]
          /\ resp' = [resp EXCEPT ![h] = None]
     ELSE /\ resp' = [resp EXCEPT ![h] = [op |-> "rotate", org_id |-> org_id,
                                          app_id |-> app_id, code |-> 400]]
          /\ UNCHANGED handler
  /\ UNCHANGED <<authVars, costVars, auxVars>>
  /\ UNCHANGED <<now, orgConfig, appConfig, profiles, pricing_service, shards,
                 dailyTotals, sticky, hist, selPrev, lastPut>>

\* db.rotate_org_credentials / db.rotate_app_credentials and the response.
\* DynamoDBBridge defines neither: AttributeError, 500, nothing stored.  A
\* bridge that has them sets the three rotation fields of the item.
RotateWrite(h) ==
  /\ handler[h].pc = "rotate"
  /\ LET w == handler[h]
         k == <<w.org_id, w.app_id>>
         stored == bridge = "RotatingBridge"
     IN /\ credentials' =
             IF stored
             THEN [credentials EXCEPT ![k] =
                     rotate_credentials(@, w.new_secret_hash, w.old_secret_hash,
                                        w.grace_expires_at_epoch)]
             ELSE credentials
        /\ resp' = [resp EXCEPT ![h] =
                      [op |-> "rotate", org_id |-> w.org_id, app_id |-> w.app_id,
                       code |-> IF stored THEN 200 ELSE 500,
                       secret_returned |-> stored, client_secret |-> w.new_secret,
                       at |-> Epoch]]
  /\ handler' = [handler EXCEPT ![h] = Idle]
  /\ UNCHANGED <<clock, bridge, issued, revoked, nextJti, rot, authLast>>
  /\ UNCHANGED <<costVars, auxVars>>
  /\ UNCHANGED <<now, orgConfig, appConfig, profiles, pricing_service, shards,
                 dailyTotals, sticky, hist, selPrev, lastPut, ops>>

\* The org and app a2 are registered with the secret 0, app a1 is not.
InitRace ==
  /\ InitStore
  /\ appConfig["a2"] = [agg_shard_count |-> 3]
  /\ orgConfig = CHOOSE c \in OrgConfigs : c.quotas.premium > 0
  /\ pricing_service = "PricingService"
  /\ InitCredentials
  /\ bridge \in {"DynamoDBBridge", "RotatingBridge"}
  /\ InitCost
  /\ InitAux

RegisterCall ==
  /\ ops < MaxRaceOps
  /\ \E h \in Handlers :
       \/ \E request \in ReconfigOrgRequests : RegisterRead(h, OrgId, NoApp, request)
       \/ \E a \in Apps, request \in ReconfigAppRequests : RegisterRead(h, OrgId, a, request)
RegisterPut == \E h \in Handlers : RegisterWrite(h)
RotateCall ==
  /\ ops < MaxRaceOps
  /\ \E h \in Handlers, a \in Apps \cup {NoApp}, g \in GracePeriods : RotateRead(h, OrgId, a, g)
RotateStore == \E h \in Handlers : RotateWrite(h)

NextRace == RegisterCall \/ RegisterPut \/ RotateCall \/ RotateStore

SpecRace == InitRace /\ [][NextRace]_vars

----------------------------------------------------------------------------
(* Submissions that fail, beside ones that are accepted *)

MaxFailOps == 2

FailInput(request_id, model_label, bedrock_model_id, calling_region, ts_off) ==
  [request_id |-> request_id, model_label |-> model_label,
   bedrock_model_id |-> bedrock_model_id, input_tokens |-> 1, output_tokens |-> 1,
   status |-> "OK", ts_off |-> ts_off, calling_region |-> calling_region]

\* A record that is accepted for an app without profiles, the same with the
\* model id of another label, one with a region a profile has, one with a
\* region no profile has, a label outside the ladder, a label nothing knows, a
\* model id without a price, and timestamps before and after the accepted
\* window.
FailInputs ==
  { FailInput(id, "premium", "m-premium", NoRegion, 0) : id \in {R1, R2} }
  \cup
  { FailInput(R2, "premium", "m-economy", NoRegion, 0),
    FailInput(R1, "premium", "m-premium", "us-east-1", 0),
    FailInput(R1, "premium", "m-premium", "eu-west-9", 0),
    FailInput(R1, "turbo", "m-premium", NoRegion, 0),
    FailInput(R1, "ghost", "m-premium", NoRegion, 0),
    FailInput(R1, "premium", "m-unknown", NoRegion, 0),
    FailInput(R1, "premium", "m-premium", NoRegion, -MaxPastSeconds - 1),
    FailInput(R1, "premium", "m-premium", NoRegion, MaxFutureSeconds + 1) }

\* The org is registered or not; app a1 has registered profiles, app a2 none.
InitFailures ==
  /\ now = 0
  /\ orgConfig \in {None, CHOOSE c \in OrgConfigs : c.quotas.premium > 0 /\ c.quota_scope = "APP"}
  /\ appConfig = [a \in Apps |-> ProfileAppConfig]
  /\ profiles = [k \in {<<OrgId, "a1", "premium">>, <<OrgId, "a1", "tenant-x">>} |-> ProfileInput]
  /\ pricing_service \in {"PricingService", "RegionPricingService"}
  /\ shards = <<>>
  /\ dailyTotals = <<>>
  /\ sticky = <<>>
  /\ handler = [h \in Handlers |-> Idle]
  /\ resp = [h \in Handlers |-> None]
  /\ hist = {}
  /\ selPrev = <<>>
  /\ lastPut = None
  /\ ops = 0
  /\ InitCredentials
  /\ bridge = "DynamoDBBridge"
  /\ InitCost
  /\ InitAux

SubmitF ==
  /\ ops < MaxFailOps
  /\ \E h \in Handlers, a \in Apps, u \in FailInputs : SubmitBegin(h, a, u)

NextFailures == SubmitF \/ SubmitStore \/ SubmitDone

SpecFailures == InitFailures /\ [][NextFailures]_vars

----------------------------------------------------------------------------
(* Selection handlers of one scope beside conditional writes of its sticky  *)
(* state.  A handler that has started runs to its answer: the event loop    *)
(* resumes a coroutine whose store read has returned.                       *)

MaxContendOps == 4

\* One org-wide scope: both apps read the same sticky item.
InitContend ==
  /\ InitSelection
  /\ orgConfig = CHOOSE c \in OrgConfigs : c.quotas.premium > 0 /\ c.quota_scope = "ORG"
  /\ appConfig["a2"] = [agg_shard_count |-> 3]

SelectC ==
  /\ ops < MaxContendOps
  /\ \E h \in Handlers, a \in Apps : SelBegin(h, a)
StickyWriterC ==
  /\ ops < MaxContendOps
  /\ \E scope \in Scopes, i \in 0..(Len(Ladder3) - 1) : PutStickyState(scope, Today, i)

NextContend == SelectC \/ SelectDone \/ StickyWriterC

SpecContend ==
  /\ InitContend
  /\ [][NextContend]_vars
  /\ \A h \in Handlers : WF_vars(SelFinish(h))

----------------------------------------------------------------------------
(* Properties of usage metering *)

Counters(item) ==
  [cost_usd_micros |-> item.cost_usd_micros, input_tokens |-> item.input_tokens,
   output_tokens |-> item.output_tokens, requests |-> item.requests]

Plus(a, b) ==
  [cost_usd_micros |-> a.cost_usd_micros + b.cost_usd_micros,
   input_tokens |-> a.input_tokens + b.input_tokens,
   output_tokens |-> a.output_tokens + b.output_tokens,
   requests |-> a.requests + b.requests]

RECURSIVE SumOf(_, _)
\* Componentwise sum of f[x] over the x of S.
SumOf(f, S) ==
  IF S = {} THEN ZeroTotal
  ELSE LET x == CHOOSE y \in S : TRUE IN Plus(f[x], SumOf(f, S \ {x}))

\* The shard cells of a scope, day and label, and their componentwise sum.
CellsOf(scope, day, model_label) ==
  {k \in DOMAIN shards : k[1] = scope /\ k[2] = day /\ k[3] = model_label}
ShardSum(scope, day, model_label) ==
  SumOf([k \in DOMAIN shards |-> Counters(shards[k])], CellsOf(scope, day, model_label))

\* What one submission of the record u adds.
OneSubmission(e) ==
  [cost_usd_micros |-> e.cost_usd_micros, input_tokens |-> e.u.input_tokens,
   output_tokens |-> e.u.output_tokens, requests |-> 1]

NoSubmitInFlight == \A h \in Handlers : handler[h].pc \notin {"write", "read"}

\* A request body that names a label of the caller's ladder with the model
\* id of that label, stamped now.
WellFormed(app_id, u) ==
  /\ u.ts_off = 0
  /\ u.model_label \in Range(EffectiveConfig(orgConfig, appConfig[app_id]).model_ordering)
  /\ u.model_label \in DOMAIN ModelLabels
  /\ u.bedrock_model_id = ModelLabels[u.model_label].bedrock_model_id

\* C1: a usage record submitted once or several times within one day is
\* answered 'accepted' every time, and the day's total for its scope and
\* label then holds the record's cost, tokens and request count once.
C1_ResubmissionIsIdempotent ==
  \A h \in Handlers :
    (resp[h] # None /\ resp[h].op = "submit" /\ WellFormed(resp[h].app, resp[h].u))
      => /\ resp[h].status = "accepted"
         /\ \A e \in hist :
              (/\ e.u = resp[h].u /\ e.app = resp[h].app
               /\ NoSubmitInFlight
               /\ \A e2 \in hist : (e2.scope = e.scope /\ e2.day = e.day) => e2.u = e.u)
              => ShardSum(e.scope, e.day, e.u.model_label) = OneSubmission(e)

EntriesOf(k) ==
  {e \in hist : <<e.scope, e.day, e.u.model_label, e.shard_id>> = k}
RequestIdsOf(k) == {e.u.request_id : e \in EntriesOf(k)}
CellKeys == DOMAIN shards \cup {<<e.scope, e.day, e.u.model_label, e.shard_id>> : e \in hist}

\* Submissions to one cell that share a request id carry the same counts.
Consistent(k) ==
  \A e1, e2 \in EntriesOf(k) :
    e1.u.request_id = e2.u.request_id => OneSubmission(e1) = OneSubmission(e2)

\* The cell as the set of submissions determines it: each request id once.
ExpectedCell(k) ==
  SumOf([r \in RequestIdsOf(k) |->
           OneSubmission(CHOOSE e \in EntriesOf(k) : e.u.request_id = r)],
        RequestIdsOf(k))

CellCounters(k) == IF k \in DOMAIN shards THEN Counters(shards[k]) ELSE ZeroTotal

----------------------------------------------------------------------------
(* Properties of the sticky state and of model selection *)

\* C5: a put_sticky_state call succeeds exactly when no state is stored for
\* the scope and day or the stored index is below the new one; a successful
\* call stores the new index, a failed one leaves the item as it was; so the
\* stored index never decreases.
C5_StickyIndexOnlyAdvances ==
  lastPut # None =>
    /\ lastPut.ok <=> (lastPut.before = None
                        \/ lastPut.before.active_model_index < lastPut.index)
    /\ lastPut.ok => lastPut.after.active_model_index = lastPut.index
    /\ ~lastPut.ok => lastPut.after = lastPut.before
    /\ lastPut.before # None =>
         lastPut.after.active_model_index >= lastPut.before.active_model_index
    /\ get_sticky_state(lastPut.scope, lastPut.day) = lastPut.after

\* C5 witness: a write with a lower or equal index was refused.
C5_Witness ==
  /\ lastPut # None
  /\ ~lastPut.ok
  /\ lastPut.before.active_model_index >= lastPut.index

Selections == {h \in Handlers : resp[h] # None /\ resp[h].op = "select"}

LadderOf(app_id) == EffectiveConfig(orgConfig, appConfig[app_id]).model_ordering
QuotasOf(app_id) == EffectiveConfig(orgConfig, appConfig[app_id]).quotas

\* The sticky item stored now for the scope and day a selection used points
\* at index j or beyond.
StoredAtLeast(r, j) ==
  LET st == get_sticky_state(r.scope, r.day)
  IN st # None /\ st.active_model_index >= j

\* C6: a selection that finds no sticky state and whose first label under
\* quota is at index j > 0 stores the sticky state at j and answers that
\* label with reason STICKY_FALLBACK and sticky_fallback_active true.
C6_FallbackIsStored ==
  \A h \in Selections :
    LET r == resp[h] IN
    (r.sticky_state = None /\ r.first_under > 0)
      => /\ r.code = 200
         /\ r.label = LadderOf(r.app)[r.first_under + 1]
         /\ r.reason = "STICKY_FALLBACK"
         /\ r.sticky_fallback_active
         /\ StoredAtLeast(r, r.first_under)

\* C7: a selection that reads a sticky state at index i whose label is over
\* quota, the first label under quota being at j > i, advances the stored
\* state to j and recommends the label at j.
C7_StickyAdvances ==
  \A h \in Selections :
    LET r == resp[h] IN
    (r.sticky_state # None /\ r.first_under > r.sticky_state.active_model_index)
      => /\ r.code = 200
         /\ r.label = LadderOf(r.app)[r.first_under + 1]
         /\ StoredAtLeast(r, r.first_under)

\* C8: within one scope and day the ladder index answered by a successful
\* selection is never below the index answered by the one before it.
C8_RecommendedIndexMonotone ==
  \A h \in Selections :
    resp[h].code = 200 => resp[h].index >= resp[h].prev_index

\* C9: when two handlers of one scope, day and ladder both found no sticky
\* state and the same first label under quota at j > 0, both answer the
\* label at j and the state stored afterwards is at j.
C9_ConcurrentFallbackAgrees ==
  \A h1, h2 \in Selections :
    LET r1 == resp[h1]
        r2 == resp[h2]
    IN (/\ h1 # h2
        /\ r1.scope = r2.scope /\ r1.day = r2.day
        /\ LadderOf(r1.app) = LadderOf(r2.app)
        /\ r1.sticky_state = None /\ r2.sticky_state = None
        /\ r1.first_under > 0 /\ r1.first_under = r2.first_under)
       => /\ r1.code = 200 /\ r2.code = 200
          /\ r1.label = LadderOf(r1.app)[r1.first_under + 1]
          /\ r2.label = r1.label
          /\ StoredAtLeast(r1, r1.first_under)

\* C10: a selection that finds no label under quota, and no sticky state
\* pointing at a label under quota, answers 429 with the quota percentage of
\* every label of the ladder and recommends nothing.
C10_AllExceededIs429 ==
  \A h \in Selections :
    LET r == resp[h] IN
    (/\ r.first_under = -1
     /\ r.sticky_state # None =>
          Spend(r.usage, r.sticky_state.active_model_label)
            >= Get(QuotasOf(r.app), r.sticky_state.active_model_label, 0))
      => /\ r.code = 429
         /\ DOMAIN r.models = Range(LadderOf(r.app))

----------------------------------------------------------------------------
(* Properties of credentials and tokens *)

\* The last request was a token request of a client whose credentials a
\* rotate request has been made for.
TokenAfterRotate ==
  /\ authLast # None
  /\ authLast.op = "token"
  /\ authLast.rot # None

GraceEnd(r) == r.at + r.grace_period_hours * SecondsPerHour

\* C11: after a rotate with grace period g, a token request with the new
\* secret succeeds at all times, one with the previous secret succeeds at
\* every time strictly before rotation time + g, and one with the previous
\* secret fails as invalid credentials from rotation time + g onward.
C11_RotationGrace ==
  TokenAfterRotate =>
    LET r == authLast.rot IN
    /\ authLast.client_secret = r.new => authLast.code = 200
    /\ (authLast.client_secret = r.prev /\ authLast.at < GraceEnd(r))
         => authLast.code = 200
    /\ (authLast.client_secret = r.prev /\ ~(authLast.at < GraceEnd(r)))
         => authLast.code = 401

\* A presented token that verification has to refuse at a call site expecting
\* expected_type: bad signature, exp in the past, wrong token_type, or a jti
\* in the revocation store when the request arrived.
MustBeRefused(token, at, expected_type, was_revoked) ==
  \/ token.sig # "ok"
  \/ token.exp < at
  \/ token.token_type # expected_type
  \/ was_revoked

\* C12: at the bearer authorizer of the /orgs/** endpoints, at the refresh
\* exchange and for the token that authorizes a revoke, a token with an
\* invalid signature, a past exp, a wrong token_type or a revoked jti is
\* answered unauthorized and the call reaches no handler body and writes no
\* revocation record.
C12_BadTokenIsRefused ==
  authLast # None =>
    /\ (authLast.op = "bearer"
          /\ MustBeRefused(authLast.token, authLast.at, "access", authLast.was_revoked))
         => (authLast.code = 401 /\ ~authLast.served)
    /\ (authLast.op = "refresh"
          /\ MustBeRefused(authLast.token, authLast.at, "refresh", authLast.was_revoked))
         => authLast.code = 401
    /\ (authLast.op = "revoke"
          /\ MustBeRefused(authLast.auth_token, authLast.at, "access", authLast.was_revoked))
         => (authLast.code = 401 /\ ~authLast.inserted)

\* The last request was a bearer request whose token passes verification but
\* is bound to another organisation or another application than the path's.
BindingMismatch ==
  /\ authLast # None
  /\ authLast.op = "bearer"
  /\ ~MustBeRefused(authLast.token, authLast.at, "access", authLast.was_revoked)
  /\ \/ authLast.token.org_id # authLast.org_id
     \/ authLast.token.app_id # NoApp /\ authLast.token.app_id # authLast.app_id

\* C13: on every bearer-authenticated /orgs/{org_id}/... endpoint a request
\* whose token org_id differs from the path org_id, or whose token app_id
\* differs from the path app_id, is answered forbidden and neither reads nor
\* writes state of the path's organisation or application.
C13_BindingIsEnforced ==
  BindingMismatch =>
    /\ authLast.code = 403
    /\ authLast.error = "FORBIDDEN"
    /\ ~authLast.served

\* The last request was a revoke whose two tokens both decode.
RevokeDecoded ==
  /\ authLast # None
  /\ authLast.op = "revoke"
  /\ authLast.auth_token.sig = "ok" /\ ~(authLast.auth_token.exp < authLast.at)
  /\ authLast.token.sig = "ok" /\ ~(authLast.token.exp < authLast.at)

\* C14: a revoke request whose authenticated sub differs from the sub of the
\* token to be revoked is answered forbidden and inserts no revocation
\* record; a record is only ever inserted for a token carrying the sub of
\* the caller.
C14_RevokeOwnTokensOnly ==
  /\ (RevokeDecoded /\ authLast.auth_token.sub # authLast.token.sub)
       => (authLast.code = 403 /\ authLast.error = "FORBIDDEN" /\ ~authLast.inserted)
  /\ (authLast # None /\ authLast.op = "revoke" /\ authLast.inserted)
       => authLast.auth_token.sub = authLast.token.sub

----------------------------------------------------------------------------
(* Properties of model selection without sticky state *)

\* Ladder positions (1-based) whose label the handler saw strictly under its
\* quota.
UnderQuota(r) ==
  {i \in DOMAIN LadderOf(r.app) :
     Spend(r.usage, LadderOf(r.app)[i]) < Get(QuotasOf(r.app), LadderOf(r.app)[i], 0)}

C16_SuccessIsUnderQuota ==
  \A h \in Selections :
    LET r == resp[h] IN
    (r.code = 200 /\ r.sticky_state = None)
      => Spend(r.usage, r.label) < Get(QuotasOf(r.app), r.label, 0)

\* A successful selection without sticky state recommended a label that has
\* spend, below its quota.
C16_Witness ==
  \E h \in Selections :
    LET r == resp[h] IN
    /\ r.code = 200
    /\ r.sticky_state = None
    /\ Spend(r.usage, r.label) > 0
    /\ Spend(r.usage, r.label) < Get(QuotasOf(r.app), r.label, 0)

----------------------------------------------------------------------------
(* Properties of usage metering: days, status and cost *)

IsFloorPerMillion(q, a) == q * 1000000 <= a /\ a < (q + 1) * 1000000

\* The price the pricebook holds for the model id of a submission.
PriceOf(u) == _get_pricing_from_config(u.bedrock_model_id)

----------------------------------------------------------------------------
(* Properties of submit_cost *)

----------------------------------------------------------------------------
(* Properties of provisioning *)

\* The stored credential record of a client.
CredentialOf(client_id) ==
  credentials[<<ParseClientId[client_id].org_id, ParseClientId[client_id].app_id>>]

\* C22: a rotate on an existing org or app succeeds and leaves the credential
\* record with previous hash = the hash current before the call, current
\* hash = the hash of the newly generated secret, grace expiry = rotation
\* time + grace_hours x 3600 s, and the client_id unchanged.
C22_RotateWritesRecord ==
  (authLast # None /\ authLast.op = "rotate") =>
    LET r == rot[authLast.client_id]
        config == CredentialOf(authLast.client_id)
    IN /\ authLast.code = 200
       /\ config.client_id = authLast.client_id
       /\ config.client_secret_hash = hash_secret(r.new)
       /\ config.client_secret_hash_old = hash_secret(r.prev)
       /\ config.client_secret_rotation_grace_expires_at_epoch
            = r.at + r.grace_period_hours * SecondsPerHour

\* The last request was a refresh exchange with a refresh token that is
\* signed, unexpired and unrevoked.
RefreshOfValidToken ==
  /\ authLast # None
  /\ authLast.op = "refresh"
  /\ ~MustBeRefused(authLast.token, authLast.at, "refresh", authLast.was_revoked)

\* C23: exchanging a valid, unrevoked refresh token issued to client c yields
\* an access token whose sub, org_id and app_id are those of an access token
\* the token endpoint issues to c, whatever the client id and however often
\* the refresh token was exchanged before.
C23_RefreshKeepsIdentity ==
  RefreshOfValidToken =>
    /\ authLast.code = 200
    /\ authLast.access_token # None
    /\ authLast.access_token.sub = authLast.token.sub
    /\ authLast.access_token.org_id = ParseClientId[authLast.token.sub].org_id
    /\ authLast.access_token.app_id = ParseClientId[authLast.token.sub].app_id

LastRegister == authLast # None /\ authLast.op = "register" /\ authLast.code = 200

\* C24: create-or-update of an org or app generates and returns a client
\* secret only when the record did not exist; an update of an existing record
\* leaves the stored secret hash unchanged and returns no secret.
C24_UpdateKeepsSecret ==
  LastRegister =>
    /\ authLast.secret_returned = ~authLast.existed
    /\ authLast.existed => authLast.hash_after = authLast.hash_before

\* Every label of the ladder has a quota that is defined and not negative.
LadderHasQuotas(config) ==
  \A label \in Range(config.model_ordering) :
    label \in DOMAIN config.quotas /\ config.quotas[label] >= 0

\* C25: every label of the stored org ladder, and of every app's effective
\* ladder, has a quota entry that is defined and >= 0; a request that would
\* break this is answered invalid-config and stores nothing.
C25_LadderLabelsHaveQuotas ==
  /\ orgConfig # None => LadderHasQuotas(orgConfig)
  /\ \A a \in Apps :
       (orgConfig # None /\ appConfig[a] # None)
         => LadderHasQuotas(EffectiveConfig(orgConfig, appConfig[a]))
  /\ (authLast # None /\ authLast.op = "register"
        /\ "model_ordering" \in DOMAIN authLast.request
        /\ "quotas" \in DOMAIN authLast.request
        /\ ~LadderHasQuotas(authLast.request))
       => (authLast.code = 400 /\ authLast.error = "INVALID_CONFIG")


----------------------------------------------------------------------------
(* Properties of the timestamp window *)

\* The submission would be accepted if its timestamp were now.
AcceptedNow(r) ==
  submit_usage_prepare(OrgId, r.app, [r.u EXCEPT !.ts_off = 0]).status = "pending"

InWindow(u) == -MaxPastSeconds <= u.ts_off /\ u.ts_off <= MaxFutureSeconds

\* C26: with respect to its timestamp a submission is accepted exactly when
\* now - 24 h <= timestamp <= now + 5 min, both bounds included; outside the
\* window it fails with invalid-request.
C26_TimestampWindow ==
  \A h \in Handlers :
    (resp[h] # None /\ resp[h].op = "submit" /\ AcceptedNow(resp[h])) =>
      IF InWindow(resp[h].u)
      THEN resp[h].code = 202
      ELSE resp[h].code = 400 /\ resp[h].error = "INVALID_REQUEST"


----------------------------------------------------------------------------
(* Properties of label resolution *)

\* The cost of u's tokens at the pricebook prices of a model.
CostAt(bedrock_model_id, u) ==
  LET p == _get_pricing_from_config(bedrock_model_id)
  IN calculate_cost(u.input_tokens, u.output_tokens,
                    p.input_price_usd_micros_per_1m, p.output_price_usd_micros_per_1m)

\* What C27 says of one answered submission.
ResolvedAsClaimed(r) ==
  LET profile == get_inference_profile(OrgId, r.app, r.u.model_label) IN
  IF profile # None
  THEN IF r.u.calling_region = NoRegion
       THEN r.code = 400 /\ r.error = "INVALID_REQUEST"
       ELSE r.u.calling_region \in DOMAIN profile.model_arns =>
              /\ r.code = 202
              /\ r.cost_usd_micros = CostAt(profile.model_arns[r.u.calling_region], r.u)
  ELSE IF r.u.model_label \in DOMAIN ModelLabels
  THEN r.code = 202 /\ r.cost_usd_micros = CostAt(r.u.bedrock_model_id, r.u)
  ELSE r.code = 400 /\ r.error = "INVALID_CONFIG"

\* C27: a label with a registered profile is resolved as a profile (priced by
\* the region-map model of calling_region, invalid request without a
\* calling_region), a label only the pricebook knows as a model, and a label
\* neither knows fails as an unknown label.
C27_ProfileBeforePricebook ==
  \A h \in Handlers :
    (resp[h] # None /\ resp[h].op = "submit") => ResolvedAsClaimed(resp[h])


----------------------------------------------------------------------------
(* Properties of the pricing lookup *)

\* The memo entry a finished call found was younger than five minutes.
FoundFresh(c) == c.memo # None /\ c.checked_at - c.memo.cached_time < 300

\* C28: get_pricing returns the value of the first tier that has one, in the
\* order memo entry younger than five minutes, store price cache, static
\* pricebook; a memo hit makes no store read; a store or pricebook hit is in
\* the memo afterwards; with no value at any tier the call raises and the
\* memo is left as it was.
C28_FirstTierWins ==
  \A h \in Handlers :
    LET c == pcall[h] IN
    c.pc = "done" =>
      IF FoundFresh(c)
      THEN c.result = c.memo.cached_data /\ c.reads = 0
      ELSE /\ c.reads = 1
           /\ IF c.stored # None THEN c.result = c.stored
              ELSE IF _get_pricing_from_config(c.bedrock_model_id) # None
              THEN c.result = _get_pricing_from_config(c.bedrock_model_id)
              ELSE c.result = [err |-> "ValueError"]
           /\ IF "err" \in DOMAIN c.result
              THEN c.memo_after = c.memo_before
              ELSE c.memo_after = [cached_data |-> c.result, cached_time |-> c.read_at]

\* A lookup is served from a memo entry that an earlier lookup wrote, although
\* the store holds another value by now.
C28_Witness ==
  \E h \in Handlers :
    /\ pcall[h].pc = "done"
    /\ FoundFresh(pcall[h])
    /\ pcall[h].reads = 0
    /\ db_get_pricing(pcall[h].bedrock_model_id, pcall[h].date) # None
    /\ db_get_pricing(pcall[h].bedrock_model_id, pcall[h].date) # pcall[h].result


----------------------------------------------------------------------------
(* Properties of the mode advice *)

ThresholdOf(app_id) ==
  Get(EffectiveConfig(orgConfig, appConfig[app_id]), "tight_mode_threshold_pct", 95)

\* C29: a selection response reports mode TIGHT exactly when spend / quota of
\* the recommended label is at or above the tight threshold (95 % unless
\* configured), NORMAL otherwise, and advises a recheck after 60 s in TIGHT
\* mode and after 300 s in NORMAL mode.
C29_ModeFollowsThreshold ==
  \A h \in Handlers :
    LET r == resp[h] IN
    (r # None /\ r.op = "select" /\ r.code = 200 /\ r.quota_usd_micros > 0) =>
      /\ r.mode = "TIGHT" <=>
           r.spend_usd_micros * 100 >= ThresholdOf(r.app) * r.quota_usd_micros
      /\ r.mode \in {"TIGHT", "NORMAL"}
      /\ r.cache_duration_secs = IF r.mode = "TIGHT" THEN 60 ELSE 300
      /\ r.check_frequency = IF r.mode = "TIGHT" THEN "PERIODIC_60S" ELSE "PERIODIC_300S"


----------------------------------------------------------------------------
(* Properties of the day rollover *)

\* A selection that ran within one day of the organisation, for which the
\* store holds no sticky item of that day (items are never deleted, so none
\* was there when the handler read).
FreshDay(r) ==
  /\ r # None /\ r.op = "select" /\ r.code \in {200, 429}
  /\ r.usage_day = r.day
  /\ <<r.scope, r.day>> \notin DOMAIN sticky

----------------------------------------------------------------------------
(* Properties of the batch endpoint *)

\* The record, submitted on its own, would be accepted (judged as the
\* specification's window judges its timestamp).
RecordAcceptable(app_id, u) ==
  /\ -MaxPastSeconds <= u.ts_off /\ u.ts_off <= MaxFutureSeconds
  /\ submit_usage_prepare(OrgId, app_id, [u EXCEPT !.ts_off = 0]).status = "pending"

\* The request id is in the cell the record belongs to.
RecordApplied(app_id, u) ==
  LET r == submit_usage_prepare(OrgId, app_id, [u EXCEPT !.ts_off = 0])
      k == <<r.scope, r.day, u.model_label, r.shard_id>>
  IN k \in DOMAIN shards /\ u.request_id \in shards[k].request_ids

\* What C31 says of one answered batch.
BatchAsClaimed(r) ==
  IF 1 <= Len(r.requests) /\ Len(r.requests) <= 100
  THEN /\ r.code = 207
       /\ Len(r.results) = Len(r.requests)
       /\ r.accepted + r.failed = Len(r.requests)
       /\ \A i \in 1..Len(r.requests) :
            /\ r.results[i].request_id = r.requests[i].request_id
            /\ r.results[i].status = "accepted" <=> RecordAcceptable(r.app, r.requests[i])
            /\ RecordAcceptable(r.app, r.requests[i]) => RecordApplied(r.app, r.requests[i])
  ELSE r.code = 422

\* C31: a batch of n records, 1 <= n <= 100, is applied record by record in
\* request order, a failing record neither stopping the later ones nor
\* undoing the earlier ones, and is answered with n results, accepted +
\* failed = n; a batch of 0 or of 101 records is rejected.
C31_BatchIsPerRecord ==
  \A h \in Handlers :
    (resp[h] # None /\ resp[h].op = "batch") => BatchAsClaimed(resp[h])


----------------------------------------------------------------------------
(* Properties of the store keys *)

\* C32: for every org and app configuration, app-level overrides of timezone
\* or quota_scope included, the (scope, day) pair under which submit_usage
\* writes for an app is at every instant the pair that model selection and
\* the app's aggregates view read; the handlers' answers carry those pairs.
C32_WriterAndReadersShareKey ==
  /\ \A a \in Apps :
       /\ submit_usage_key(OrgId, a) = get_current_usage_key(OrgId, a)
       /\ submit_usage_key(OrgId, a) = aggregates_key(OrgId, a)
  /\ \A e \in hist, h \in Handlers :
       (resp[h] # None /\ resp[h].op \in {"select", "view"} /\ resp[h].code = 200
          /\ resp[h].app = e.app /\ resp[h].day = e.day)
         => resp[h].scope = e.scope


----------------------------------------------------------------------------
(* Properties of submissions around configuration updates *)

\* The cells of one day that hold a request id.
CellsHolding(request_id, day) ==
  {k \in DOMAIN shards : k[2] = day /\ request_id \in shards[k].request_ids}

----------------------------------------------------------------------------
(* Properties of concurrent provisioning calls *)

AllIdle == \A h \in Handlers : handler[h].pc = "idle"

\* The answered calls on one client that returned a secret.
SecretAnswers(org_id, app_id) ==
  {h \in Handlers : /\ resp[h] # None
                    /\ resp[h].op \in {"register", "rotate"}
                    /\ resp[h].code = 200
                    /\ resp[h].org_id = org_id /\ resp[h].app_id = app_id
                    /\ resp[h].secret_returned}

\* C34: whatever the interleaving of create-or-update and rotate calls on one
\* org or app, once all of them are complete the secret issued last
\* authenticates (a rotation is not undone by an update that read before it
\* wrote), and a create that returned a secret, with no rotation after it,
\* returned one that authenticates.
C34_LastSecretAuthenticates ==
  AllIdle =>
    \A a \in Apps \cup {NoApp} :
      LET S == SecretAnswers(OrgId, a) IN
      /\ \A h \in S :
           (\A g \in S : resp[g].client_secret <= resp[h].client_secret)
             => verify_secret(resp[h].client_secret, StoredHash(OrgId, a))
      /\ \A h \in S :
           (resp[h].op = "register" /\ \A g \in S : resp[g].op = "register")
             => verify_secret(resp[h].client_secret, StoredHash(OrgId, a))

\* The rotation fields of a stored item, when it has them.
RotationOf(item) == Restrict(item, {"client_secret_hash", "client_secret_hash_old", "client_secret_rotation_grace_expires_at_epoch"})
InGrace(item, at) ==
  /\ item # None
  /\ "client_secret_rotation_grace_expires_at_epoch" \in DOMAIN item
  /\ at < item.client_secret_rotation_grace_expires_at_epoch

----------------------------------------------------------------------------
(* Properties of failing submissions *)

\* The reasons for which a submission must fail: unknown org, label outside
\* the effective ladder, label neither a profile nor in the pricebook, profile
\* label without calling_region or with a region the profile has not, no price
\* for the model to price, timestamp outside the window.
FailureCase(app_id, u) ==
  IF orgConfig = None THEN TRUE
  ELSE IF u.model_label \notin Range(EffectiveConfig(orgConfig, appConfig[app_id]).model_ordering) THEN TRUE
  ELSE IF u.ts_off > MaxFutureSeconds \/ u.ts_off < -MaxPastSeconds THEN TRUE
  ELSE LET profile == Get(profiles, <<OrgId, app_id, u.model_label>>, None) IN
       IF profile # None
       THEN \/ u.calling_region = NoRegion
            \/ u.calling_region \notin DOMAIN profile.model_arns
            \/ \A l \in DOMAIN ModelLabels :
                 ModelLabels[l].bedrock_model_id # profile.model_arns[u.calling_region]
       ELSE \/ u.model_label \notin DOMAIN ModelLabels
            \/ \A l \in DOMAIN ModelLabels : ModelLabels[l].bedrock_model_id # u.bedrock_model_id

\* The submissions whose shard write has been made: the accepted ones and the
\* ones between the write and the answer.
WrittenTo(k) ==
  { e.u.request_id : e \in {x \in hist : <<x.scope, x.day, x.u.model_label, x.shard_id>> = k /\ ~FailureCase(x.app, x.u)} }
  \cup
  { handler[h].u.request_id : h \in {x \in Handlers : /\ handler[x].pc = "read"
                                                       /\ <<handler[x].scope, handler[x].day, handler[x].u.model_label, handler[x].shard_id>> = k
                                                       /\ ~FailureCase(handler[x].app, handler[x].u)} }

\* C36: a submit_usage call that fails for one of the listed reasons is
\* answered as failed and writes nothing: every request id held by a cell is
\* of a call that passed every check, every cell counts as many requests as it
\* holds ids, and the sticky state is as it was.
C36_FailuresWriteNothing ==
  /\ \A h \in Handlers :
       (resp[h] # None /\ resp[h].op = "submit" /\ FailureCase(resp[h].app, resp[h].u))
         => resp[h].status = "failed"
  /\ \A k \in DOMAIN shards :
       /\ shards[k].request_ids \subseteq WrittenTo(k)
       /\ shards[k].requests = Cardinality(shards[k].request_ids)
  /\ sticky = <<>>

\* A repeat of an accepted request id has failed for its timestamp and the
\* cell that holds the id still counts one request.
C36_Witness ==
  \E h \in Handlers, k \in DOMAIN shards :
    /\ resp[h] # None /\ resp[h].op = "submit" /\ resp[h].status = "failed"
    /\ resp[h].code = 400 /\ resp[h].error = "INVALID_REQUEST"
    /\ resp[h].u.ts_off < -MaxPastSeconds
    /\ resp[h].u.request_id \in shards[k].request_ids
    /\ shards[k].requests = 1


----------------------------------------------------------------------------
(* Properties of the price applied *)

\* The cost of a record at the prices of its label's pricebook entry.
PricebookCost(u) ==
  calculate_cost(u.input_tokens, u.output_tokens,
                 ModelLabels[u.model_label].input_price_usd_micros_per_1m,
                 ModelLabels[u.model_label].output_price_usd_micros_per_1m)

----------------------------------------------------------------------------
(* Properties of the aggregates view *)

\* C38: the aggregates view of an app reports every label of the effective
\* ladder with its effective configured quota, EXCEEDED exactly when the
\* daily cost it read is at or above that quota, and, when it read a sticky
\* state for its (scope, day), sticky fallback active with the sticky state's
\* active label as the current active model.
C38_ViewAgreesWithSelection ==
  \A h \in Handlers :
    (resp[h] # None /\ resp[h].op = "view" /\ resp[h].code = 200) =>
      LET r == resp[h]
          effective_config == EffectiveConfig(orgConfig, appConfig[r.app])
      IN /\ DOMAIN r.models = Range(effective_config.model_ordering)
         /\ \A l \in DOMAIN r.models :
              /\ r.models[l].quota_usd_micros = Get(effective_config.quotas, l, 0)
              /\ (r.models[l].quota_status = "EXCEEDED")
                   <=> (r.models[l].cost_usd_micros >= Get(effective_config.quotas, l, 0))
         /\ r.sticky_fallback_active <=> (r.sticky_state # None)
         /\ r.sticky_state # None => r.current_active_model = r.sticky_state.active_model_label


----------------------------------------------------------------------------
(* Properties of selections under contention *)

\* A handler that has read the usage takes one more step, its answer: it
\* makes no second pass.
OnePass ==
  \A h \in Handlers :
    (handler[h].pc = "sticky" /\ handler'[h] # handler[h])
      => (handler'[h].pc = "idle" /\ resp'[h] # None)

====
